---------------------------- MODULE Spec2Model ----------------------------
(***************************************************************************)
(* A model of the 16-bit RISC-V-style simulator: register file, ALU,       *)
(* memories, instruction decoder, control unit, processor core and the     *)
(* two-pass assembler.  Definitions keep the names of the Python source.   *)
(***************************************************************************)
EXTENDS Integers, Sequences, FiniteSets, TLC

VARIABLES
    pc,                 \* RiscVProcessor.pc
    halted,             \* RiscVProcessor.halted
    cycle_count,        \* RiscVProcessor.cycle_count
    instruction_count,  \* RiscVProcessor.instruction_count
    registers,          \* RegisterFile.registers[i]._value, i in 0..15
    dmem,               \* DataMemory.memory
    imem,               \* InstructionMemory.memory
    program_size,       \* InstructionMemory.program_size
    alu,                \* the ALU's result, flags and operation counter
    pc_updated,         \* RiscVProcessor._pc_updated
    execution_history,  \* RiscVProcessor.execution_history
    decode_history,     \* InstructionDecoder.decode_history
    strict_mode,        \* ProcessorErrorHandler.strict_mode
    error_count,        \* ProcessorErrorHandler.error_count
    error_log,          \* ProcessorErrorHandler.error_log
    exception,          \* the pc and instruction the exception raised by
                        \* the last handler call carries
    labels,             \* RiscVAssembler.labels
    instructions,       \* RiscVAssembler.instructions
    machine_code,       \* RiscVAssembler.machine_code
    emitted,            \* for each parsed instruction, the index of its word
                        \* in machine_code, 0 if it was not encoded
    source,             \* the source lines handed to the assembler
    call,               \* the last operation called, with its arguments
    ret,                \* what that operation returned
    raised,             \* the exception it raised instead, "" if none
    step_calls          \* how many times that operation called step()

vars == << pc, halted, cycle_count, instruction_count, registers, dmem, imem,
           program_size, alu, pc_updated, execution_history, decode_history,
           strict_mode, error_count, error_log, exception, labels,
           instructions, machine_code, emitted, source, call, ret, raised,
           step_calls >>

coreVars == << pc, halted, cycle_count, instruction_count, registers, dmem,
               alu, pc_updated, execution_history >>
cpuVars == << coreVars, decode_history >>
errVars == << strict_mode, error_count, error_log, exception >>
memVars == << imem, program_size >>
asmVars == << labels, instructions, machine_code, emitted, source >>

Call(op, args) == [op |-> op, args |-> args]

----------------------------------------------------------------------------
(* Bounds of the model *)

\* words of instruction memory (constructor argument instruction_memory_size)
IMemSize == 8
\* words of data memory (constructor argument data_memory_size)
DMemSize == 3
\* longest program handed to load_program_direct
MaxProg == 3
\* step() is not called once the cycle counter has reached this
MaxCycles == 6
\* largest max_cycles handed to run()
MaxBudget == 3
\* longest source text handed to the assembler, in lines
MaxLines == 4
\* number of register-file and ALU calls followed in their own specifications
MaxOps == 3
\* reset() is not called once the decoder's history holds this many records
MaxDecodes == 1
\* nor reset() followed by load_program() once it holds this many
MaxReloadDecodes == 3
\* no handler call is made once the error counter has reached this
MaxErrors == 3
\* errors handed to one handler when its log is filled, and how many
\* entries of the log may be of another kind than MEMORY then
MaxLogged == 12
MaxMixed == 2

----------------------------------------------------------------------------
(* 16-bit arithmetic *)

Mask16(v) == v % 65536

RECURSIVE BitAnd(_, _, _)
BitAnd(a, b, n) ==
    IF n = 0 THEN 0
    ELSE (IF a % 2 = 1 /\ b % 2 = 1 THEN 1 ELSE 0)
         + 2 * BitAnd(a \div 2, b \div 2, n - 1)

RECURSIVE BitOr(_, _, _)
BitOr(a, b, n) ==
    IF n = 0 THEN 0
    ELSE (IF a % 2 = 1 \/ b % 2 = 1 THEN 1 ELSE 0)
         + 2 * BitOr(a \div 2, b \div 2, n - 1)

RECURSIVE BitXor(_, _, _)
BitXor(a, b, n) ==
    IF n = 0 THEN 0
    ELSE (IF (a % 2) # (b % 2) THEN 1 ELSE 0)
         + 2 * BitXor(a \div 2, b \div 2, n - 1)

\* Python's None in a decoded record
None == -1000

----------------------------------------------------------------------------
(* RegisterFile.py *)

\* read_only as it would be if x0 were an ordinary register
read_only_never(i) == FALSE

\* Register.read_only: only x0
read_only(i) == i = 0

\* Register.write as it would be without the 16-bit mask
Register_write_unmasked(regs, i, value) ==
    IF i = 0
    THEN [ok |-> FALSE, regs |-> regs]
    ELSE [ok |-> TRUE, regs |-> [regs EXCEPT ![i] = value]]

\* Register.write: [ok, regs]
Register_write(regs, i, value) ==
    IF read_only(i)
    THEN [ok |-> FALSE, regs |-> regs]
    ELSE [ok |-> TRUE, regs |-> [regs EXCEPT ![i] = Mask16(value)]]

\* RegisterFile.read
RF_read(regs, reg_num) ==
    IF 0 <= reg_num /\ reg_num < 16 THEN regs[reg_num] ELSE 0

\* RegisterFile.write
RF_write(regs, reg_num, value) ==
    IF 0 <= reg_num /\ reg_num < 16
    THEN Register_write(regs, reg_num, value)
    ELSE [ok |-> FALSE, regs |-> regs]

\* RegisterFile.reset_all / Register.reset
RF_reset_all(regs) ==
    [i \in 0..15 |-> IF read_only(i) THEN regs[i] ELSE 0]

\* RegisterFile.__init__
RF_init == [i \in 0..15 |-> 0]

----------------------------------------------------------------------------
(* ALU.py *)

ALU_ADD == 0
ALU_SUB == 1
ALU_AND == 2
ALU_OR  == 3
ALU_XOR == 4
ALU_EQ  == 5
ALU_NE  == 6

\* ALU.__init__ / ALU.reset
ALU_init ==
    [last_result |-> 0, zero_flag |-> FALSE, overflow_flag |-> FALSE,
     negative_flag |-> FALSE, operation_count |-> 0]

\* ALU.recognize_operation: is the code in operations_map
recognize_operation(operation) == operation \in ALU_ADD..ALU_NE

\* ALU.add as it would be with the overflow test off by one
add_late_overflow(a, b) == [result |-> a + b, overflow |-> a + b > 65536]

\* ALU.add: the unmasked sum, and whether it sets the overflow flag
add(a, b) == [result |-> a + b, overflow |-> a + b > 65535]

\* ALU.sub as it would be with 0xFFFF for 0x10000 in the wrap
sub_short_wrap(a, b) == IF a - b < 0 THEN a - b + 65535 ELSE a - b

\* ALU.sub
sub(a, b) == IF a - b < 0 THEN a - b + 65536 ELSE a - b

\* the op_function(a, b) call of ALU.execute
op_function(operation, a, b) ==
    CASE operation = ALU_ADD -> add(a, b).result
      [] operation = ALU_SUB -> sub(a, b)
      [] operation = ALU_AND -> BitAnd(a, b, 16)
      [] operation = ALU_OR  -> BitOr(a, b, 16)
      [] operation = ALU_XOR -> BitXor(a, b, 16)
      [] operation = ALU_EQ  -> (IF a = b THEN 1 ELSE 0)
      [] operation = ALU_NE  -> (IF a # b THEN 1 ELSE 0)

\* ALU.execute as it would be if an unknown code gave the result 0
ALU_execute_default_zero(st, a0, b0, operation) ==
    LET a == Mask16(a0)
        b == Mask16(b0)
        cleared == [st EXCEPT !.overflow_flag = FALSE]
    IN  IF ~recognize_operation(operation)
        THEN [raised |-> FALSE, value |-> 0, alu |-> cleared]
        ELSE LET result == op_function(operation, a, b)
                 last == Mask16(result)
             IN  [raised |-> FALSE, value |-> last,
                  alu |-> [last_result |-> last,
                           zero_flag |-> (last = 0),
                           overflow_flag |->
                               (operation = ALU_ADD /\ add(a, b).overflow),
                           negative_flag |-> (last >= 32768),
                           operation_count |-> st.operation_count + 1]]

\* ALU.execute as it would be without the reset of the overflow flag
\* before the operation
ALU_execute_sticky_overflow(st, a0, b0, operation) ==
    LET a == Mask16(a0)
        b == Mask16(b0)
    IN  IF ~recognize_operation(operation)
        THEN [raised |-> TRUE, value |-> None, alu |-> st]
        ELSE LET result == op_function(operation, a, b)
                 last == Mask16(result)
             IN  [raised |-> FALSE, value |-> last,
                  alu |-> [last_result |-> last,
                           zero_flag |-> (last = 0),
                           overflow_flag |->
                               \/ st.overflow_flag
                               \/ (operation = ALU_ADD /\ add(a, b).overflow),
                           negative_flag |-> (last >= 32768),
                           operation_count |-> st.operation_count + 1]]

\* ALU.execute with ALU._update_flags: [raised, value, alu]
ALU_execute(st, a0, b0, operation) ==
    LET a == Mask16(a0)
        b == Mask16(b0)
        cleared == [st EXCEPT !.overflow_flag = FALSE]
    IN  IF ~recognize_operation(operation)
        THEN [raised |-> TRUE, value |-> None, alu |-> cleared]
        ELSE LET result == op_function(operation, a, b)
                 last == Mask16(result)
             IN  [raised |-> FALSE, value |-> last,
                  alu |-> [last_result |-> last,
                           zero_flag |-> (last = 0),
                           overflow_flag |->
                               (operation = ALU_ADD /\ add(a, b).overflow),
                           negative_flag |-> (last >= 32768),
                           operation_count |-> st.operation_count + 1]]

----------------------------------------------------------------------------
(* InstructionDecoder.py *)

\* InstructionDecoder.isa_table: opcode -> name, type (0xD has no entry)
isa_table ==
    [o \in (0..15) \ {13} |->
        CASE o = 0  -> [name |-> "ADD",  type |-> "R"]
          [] o = 1  -> [name |-> "SUB",  type |-> "R"]
          [] o = 2  -> [name |-> "AND",  type |-> "R"]
          [] o = 3  -> [name |-> "OR",   type |-> "R"]
          [] o = 4  -> [name |-> "XOR",  type |-> "R"]
          [] o = 5  -> [name |-> "ADDI", type |-> "I"]
          [] o = 6  -> [name |-> "ANDI", type |-> "I"]
          [] o = 7  -> [name |-> "ORI",  type |-> "I"]
          [] o = 8  -> [name |-> "LW",   type |-> "I"]
          [] o = 9  -> [name |-> "SW",   type |-> "S"]
          [] o = 10 -> [name |-> "BEQ",  type |-> "B"]
          [] o = 11 -> [name |-> "BNE",  type |-> "B"]
          [] o = 12 -> [name |-> "JAL",  type |-> "J"]
          [] o = 14 -> [name |-> "NOP",  type |-> "Special"]
          [] o = 15 -> [name |-> "HALT", type |-> "Special"]]

\* the fields every decoded record carries
Decoded(type, opcode, name, rd, rs1, rs2, immediate, offset, raw, valid) ==
    [type |-> type, opcode |-> opcode, instruction_name |-> name,
     rd |-> rd, rs1 |-> rs1, rs2 |-> rs2, immediate |-> immediate,
     offset |-> offset, raw_instruction |-> raw, valid |-> valid]

_decode_r_type(instruction, opcode, info) ==
    Decoded("R", opcode, info.name, (instruction \div 256) % 16,
            (instruction \div 16) % 16, instruction % 16, None, None,
            instruction, TRUE)

_decode_i_type(instruction, opcode, info) ==
    LET imm == instruction % 16
    IN  Decoded("I", opcode, info.name, (instruction \div 256) % 16,
                (instruction \div 16) % 16, None, imm,
                IF info.name = "LW" THEN imm ELSE None, instruction, TRUE)

_decode_s_type(instruction, opcode, info) ==
    Decoded("S", opcode, info.name, None, (instruction \div 16) % 16,
            (instruction \div 256) % 16, None, instruction % 16,
            instruction, TRUE)

\* _decode_b_type as it would be without the sign extension
_decode_b_type_unsigned(instruction, opcode, info) ==
    Decoded("B", opcode, info.name, None, (instruction \div 256) % 16,
            (instruction \div 16) % 16, None, instruction % 16,
            instruction, TRUE)

_decode_b_type(instruction, opcode, info) ==
    LET offset == instruction % 16
        signed_offset == IF offset >= 8 THEN offset - 16 ELSE offset
    IN  Decoded("B", opcode, info.name, None, (instruction \div 256) % 16,
                (instruction \div 16) % 16, None, signed_offset,
                instruction, TRUE)

_decode_j_type(instruction, opcode, info) ==
    LET offset == instruction % 256
        signed_offset == IF offset >= 128 THEN offset - 256 ELSE offset
    IN  Decoded("J", opcode, info.name, (instruction \div 256) % 16, None,
                None, None, signed_offset, instruction, TRUE)

_decode_special_type(instruction, opcode, info) ==
    Decoded("Special", opcode, info.name, None, None, None, None, None,
            instruction, TRUE)

\* _create_invalid_instruction as it would be if it marked the record valid
_create_invalid_instruction_valid(instruction, opcode) ==
    Decoded("Invalid", opcode, "UNKNOWN", None, None, None, None, None,
            instruction, TRUE)

_create_invalid_instruction(instruction, opcode) ==
    Decoded("Invalid", opcode, "UNKNOWN", None, None, None, None, None,
            instruction, FALSE)

\* InstructionDecoder.decode
decode(instruction0) ==
    LET instruction == Mask16(instruction0)
        opcode == (instruction \div 4096) % 16
    IN  IF opcode \notin DOMAIN isa_table
        THEN _create_invalid_instruction(instruction, opcode)
        ELSE LET info == isa_table[opcode]
             IN  CASE info.type = "R" -> _decode_r_type(instruction, opcode, info)
                   [] info.type = "I" -> _decode_i_type(instruction, opcode, info)
                   [] info.type = "S" -> _decode_s_type(instruction, opcode, info)
                   [] info.type = "B" -> _decode_b_type(instruction, opcode, info)
                   [] info.type = "J" -> _decode_j_type(instruction, opcode, info)
                   [] info.type = "Special" ->
                          _decode_special_type(instruction, opcode, info)

\* InstructionDecoder.decode_history after decode(instruction0): the record
\* is appended unless the opcode has no ISA entry
decode_appends(history, instruction0) ==
    IF (Mask16(instruction0) \div 4096) % 16 \notin DOMAIN isa_table
    THEN history
    ELSE Append(history, decode(instruction0))

----------------------------------------------------------------------------
(* ControlUnit.py *)

\* ControlUnit.control_table: the signals the processor core reads
control_table ==
    [n \in {"ADD", "SUB", "AND", "OR", "XOR", "ADDI", "ANDI", "ORI", "LW",
            "SW", "BEQ", "BNE", "JAL", "NOP", "HALT"} |->
        [alu_operation |->
             CASE n \in {"ADD", "ADDI", "LW", "SW"} -> ALU_ADD
               [] n = "SUB" -> ALU_SUB
               [] n \in {"AND", "ANDI"} -> ALU_AND
               [] n \in {"OR", "ORI"} -> ALU_OR
               [] n = "XOR" -> ALU_XOR
               [] n = "BEQ" -> ALU_EQ
               [] n = "BNE" -> ALU_NE
               [] OTHER -> None,
         reg_write_enable |-> n \notin {"SW", "BEQ", "BNE", "NOP", "HALT"},
         mem_read |-> (n = "LW"),
         mem_write |-> (n = "SW"),
         branch |-> n \in {"BEQ", "BNE"},
         jump |-> (n = "JAL"),
         pc_update |->
             CASE n \in {"BEQ", "BNE"} -> "conditional"
               [] n = "JAL" -> "jump"
               [] n = "HALT" -> "halt"
               [] OTHER -> "increment"]]

\* generate_control_signals as it would be if XOR had no table entry and
\* got the error signals, whose alu_operation is None
generate_control_signals_error(decoded) ==
    IF decoded.instruction_name = "XOR"
    THEN [control_table["NOP"] EXCEPT !.reg_write_enable = FALSE]
    ELSE control_table[decoded.instruction_name]

\* ControlUnit.generate_control_signals, for a valid decoded instruction
generate_control_signals(decoded) == control_table[decoded.instruction_name]

----------------------------------------------------------------------------
(* Memory.py *)

\* InstructionMemory.__init__
IM_init == [a \in 0..(IMemSize - 1) |-> 0]

\* InstructionMemory.load_program as it would be without the clearing of
\* the memory
load_program_no_clear(mem, psize, words, start_address) ==
    IF start_address < 0 \/ start_address >= IMemSize
    THEN [ok |-> FALSE, memory |-> mem, program_size |-> psize]
    ELSE IF Len(words) + start_address > IMemSize
    THEN [ok |-> FALSE, memory |-> mem, program_size |-> psize]
    ELSE [ok |-> TRUE,
          memory |-> [a \in 0..(IMemSize - 1) |->
                         IF start_address <= a /\ a < start_address + Len(words)
                         THEN Mask16(words[a - start_address + 1])
                         ELSE mem[a]],
          program_size |-> Len(words)]

\* InstructionMemory.size of the memory mem, which holds the addresses
\* 0..size-1
IM_size(mem) == Cardinality(DOMAIN mem)

\* InstructionMemory.load_program: [ok, memory, program_size]
load_program(mem, psize, words, start_address) ==
    CHOOSE r \in
      { IF start_address < 0 \/ start_address >= size
        THEN [ok |-> FALSE, memory |-> mem, program_size |-> psize]
        ELSE IF count + start_address > size
        THEN [ok |-> FALSE, memory |-> mem, program_size |-> psize]
        ELSE [ok |-> TRUE,
              memory |-> [a \in DOMAIN mem |->
                             IF start_address <= a /\ a < start_address + count
                             THEN Mask16(words[a - start_address + 1])
                             ELSE 0],
              program_size |-> count] :
          size \in {IM_size(mem)}, count \in {Len(words)} } : TRUE

\* InstructionMemory.read_instruction
read_instruction(mem, address) ==
    IF address \in DOMAIN mem THEN mem[address] ELSE 0

\* DataMemory.base_address
base_address == 4096

\* DataMemory.__init__ / DataMemory.clear_memory
DM_init == [a \in 0..(DMemSize - 1) |-> 0]

\* DataMemory._address_to_index
_address_to_index(address) ==
    IF base_address <= address /\ address < base_address + DMemSize
    THEN address - base_address
    ELSE None

\* DataMemory.read_word
read_word(mem, address) ==
    LET index == _address_to_index(address)
    IN  IF index # None THEN mem[index] ELSE 0

\* DataMemory.write_word as it would be if the index wrapped around
write_word_wrapping(mem, address, value) ==
    [ok |-> TRUE,
     memory |-> [mem EXCEPT ![(address - base_address) % DMemSize] =
                                Mask16(value)]]

\* DataMemory.write_word: [ok, memory]
write_word(mem, address, value) ==
    LET index == _address_to_index(address)
    IN  IF index # None
        THEN [ok |-> TRUE, memory |-> [mem EXCEPT ![index] = Mask16(value)]]
        ELSE [ok |-> FALSE, memory |-> mem]

\* EnhancedDataMemory._is_valid_address
_is_valid_address(address) ==
    base_address <= address /\ address < base_address + DMemSize

(* ExceptionHandling.py: the error handler, as operators on its state h *)

\* ProcessorErrorHandler.__init__
ProcessorErrorHandler(strict) ==
    [strict_mode |-> strict, error_count |-> 0, error_log |-> << >>]

\* the error log keeps its last 10 entries
ErrorLogLimit == 10

\* the digits of n >= 0 in the given base, most significant first
RECURSIVE Digits(_, _)
Digits(n, base) ==
    IF n < base THEN << n >>
    ELSE Append(Digits(n \div base, base), n % base)

\* an integer as an f-string writes it: its sign and its digits, padded
\* with zeros to the width, which counts the sign ("{n:04X}" is
\* Formatted(n, 16, 4), "{n}" is Formatted(n, 10, 0))
Formatted(n, base, width) ==
    LET sign == IF n < 0 THEN "-" ELSE ""
        digits == Digits(IF n < 0 THEN -n ELSE n, base)
        room == IF n < 0 THEN width - 1 ELSE width
    IN  [sign |-> sign,
         digits |-> [i \in 1..(IF Len(digits) < room
                               THEN room - Len(digits) ELSE 0) |-> 0]
                    \o digits]

\* _log_error as it would be if a full log dropped the new entry instead
\* of the oldest
_log_error_keeps_oldest(h, error_type, message, pc0) ==
    LET count == h.error_count + 1
        appended == Append(h.error_log,
                           [count |-> count, type |-> error_type,
                            message |-> message,
                            pc |-> pc0, timestamp |-> count])
    IN  [h EXCEPT !.error_count = count,
                  !.error_log = IF Len(appended) > ErrorLogLimit
                                THEN SubSeq(appended, 1, ErrorLogLimit)
                                ELSE appended]

\* ProcessorErrorHandler._log_error; a message is the sequence of the
\* pieces of its text
_log_error(h, error_type, message, pc0) ==
    LET count == h.error_count + 1
        appended == Append(h.error_log,
                           [count |-> count, type |-> error_type,
                            message |-> message,
                            pc |-> pc0, timestamp |-> count])
    IN  [h EXCEPT !.error_count = count,
                  !.error_log = IF Len(appended) > ErrorLogLimit
                                THEN Tail(appended) ELSE appended]

\* ProcessorException.__init__: the attributes of the exception but its
\* message
ProcessorException(pc0, instruction) ==
    [pc |-> pc0, instruction |-> instruction]

\* no exception
NoException == ProcessorException(None, None)

\* The handle_* methods give [h, raised, exception, value]: raised is the
\* name of the exception class, "" when the call returns value

\* ProcessorErrorHandler.handle_memory_error
handle_memory_error(h, address, operation, pc0) ==
    LET message == << "Invalid memory ", operation, " at address 0x",
                       Formatted(address, 16, 4) >>
    IN  IF h.strict_mode
        THEN [h |-> _log_error(h, "MEMORY", message, pc0),
              raised |-> "MemoryException",
              exception |-> ProcessorException(pc0, None), value |-> None]
        ELSE [h |-> _log_error(h, "MEMORY", message, pc0), raised |-> "",
              exception |-> NoException, value |-> 0]

\* handle_invalid_instruction as it would be if the exception were built
\* without the instruction
handle_invalid_instruction_bare(h, instruction, pc0) ==
    LET message == << "Unknown instruction 0x",
                       Formatted(instruction, 16, 4) >>
    IN  IF h.strict_mode
        THEN [h |-> _log_error(h, "INSTRUCTION", message, pc0),
              raised |-> "InvalidInstructionException",
              exception |-> ProcessorException(pc0, None), value |-> None]
        ELSE [h |-> _log_error(h, "INSTRUCTION", message, pc0),
              raised |-> "",
              exception |-> NoException, value |-> None]

\* ProcessorErrorHandler.handle_invalid_instruction
handle_invalid_instruction(h, instruction, pc0) ==
    LET message == << "Unknown instruction 0x",
                       Formatted(instruction, 16, 4) >>
    IN  IF h.strict_mode
        THEN [h |-> _log_error(h, "INSTRUCTION", message, pc0),
              raised |-> "InvalidInstructionException",
              exception |-> ProcessorException(pc0, instruction),
              value |-> None]
        ELSE [h |-> _log_error(h, "INSTRUCTION", message, pc0),
              raised |-> "",
              exception |-> NoException, value |-> None]

\* ProcessorErrorHandler.handle_register_error
handle_register_error(h, reg_num, operation, pc0) ==
    LET message == << "Invalid register ", operation, ": x",
                       Formatted(reg_num, 10, 0) >>
    IN  IF h.strict_mode
        THEN [h |-> _log_error(h, "REGISTER", message, pc0),
              raised |-> "RegisterException",
              exception |-> ProcessorException(pc0, None), value |-> None]
        ELSE [h |-> _log_error(h, "REGISTER", message, pc0), raised |-> "",
              exception |-> NoException, value |-> FALSE]

\* ProcessorErrorHandler.handle_execution_error
handle_execution_error(h, message, pc0, instruction) ==
    IF h.strict_mode
    THEN [h |-> _log_error(h, "EXECUTION", message, pc0),
          raised |-> "ExecutionException",
          exception |-> ProcessorException(pc0, instruction), value |-> None]
    ELSE [h |-> _log_error(h, "EXECUTION", message, pc0), raised |-> "",
          exception |-> NoException, value |-> None]

\* ProcessorErrorHandler.reset_errors
reset_errors(h) == [h EXCEPT !.error_count = 0, !.error_log = << >>]

\* EnhancedDataMemory.read_word with a handler in the given mode:
\* [raised, value]
Enhanced_read_word(mem, address, strict) ==
    IF ~_is_valid_address(address)
    THEN LET r == handle_memory_error(ProcessorErrorHandler(strict),
                                      address, "read", None)
         IN  [raised |-> r.raised # "", value |-> r.value]
    ELSE [raised |-> FALSE, value |-> mem[address - base_address]]

\* EnhancedDataMemory.write_word with a handler in the given mode:
\* [raised, value, memory]
Enhanced_write_word(mem, address, value, strict) ==
    IF ~_is_valid_address(address)
    THEN [raised |-> handle_memory_error(ProcessorErrorHandler(strict),
                                         address, "write", None).raised # "",
          value |-> IF strict THEN None ELSE FALSE, memory |-> mem]
    ELSE [raised |-> FALSE, value |-> TRUE,
          memory |-> [mem EXCEPT ![address - base_address] = Mask16(value)]]

----------------------------------------------------------------------------
(* MainCPU.py: the processor core, as operators on the processor state s *)

\* the processor state the variables hold
CPU ==
    [pc |-> pc, halted |-> halted, cycle_count |-> cycle_count,
     instruction_count |-> instruction_count, registers |-> registers,
     dmem |-> dmem, alu |-> alu, pc_updated |-> pc_updated,
     execution_history |-> execution_history,
     decode_history |-> decode_history]

\* RiscVProcessor.__init__
CPU_init ==
    [pc |-> 0, halted |-> FALSE, cycle_count |-> 0, instruction_count |-> 0,
     registers |-> RF_init, dmem |-> DM_init, alu |-> ALU_init,
     pc_updated |-> FALSE, execution_history |-> << >>,
     decode_history |-> << >>]

\* the history keeps its last 20 entries
HistoryLimit == 20

_execute_r_type(s, decoded, cs) ==
    LET rs1_value == RF_read(s.registers, decoded.rs1)
        rs2_value == RF_read(s.registers, decoded.rs2)
        r == ALU_execute(s.alu, rs1_value, rs2_value, cs.alu_operation)
    IN  [s EXCEPT !.alu = r.alu,
                  !.registers = IF cs.reg_write_enable
                                THEN RF_write(@, decoded.rd, r.value).regs
                                ELSE @]

\* _execute_i_type as it would be if the immediate were read as a signed
\* 4-bit number
_execute_i_type_signed(s, decoded, cs) ==
    LET rs1_value == RF_read(s.registers, decoded.rs1)
        immediate == IF decoded.immediate >= 8 THEN decoded.immediate - 16
                     ELSE decoded.immediate
        r == ALU_execute(s.alu, rs1_value, immediate, cs.alu_operation)
    IN  [s EXCEPT !.alu = r.alu,
                  !.registers = IF cs.reg_write_enable
                                THEN RF_write(@, decoded.rd, r.value).regs
                                ELSE @]

_execute_i_type(s, decoded, cs) ==
    LET rs1_value == RF_read(s.registers, decoded.rs1)
        r == ALU_execute(s.alu, rs1_value, decoded.immediate, cs.alu_operation)
    IN  [s EXCEPT !.alu = r.alu,
                  !.registers = IF cs.reg_write_enable
                                THEN RF_write(@, decoded.rd, r.value).regs
                                ELSE @]

\* the data memory address of a load or store
data_address(s, decoded) ==
    LET memory_address == Mask16(RF_read(s.registers, decoded.rs1) + decoded.offset)
    IN  base_address + (memory_address % 1024)

_execute_load(s, decoded, cs) ==
    LET data_value == read_word(s.dmem, data_address(s, decoded))
    IN  [s EXCEPT !.registers = RF_write(@, decoded.rd, data_value).regs]

\* _execute_store as it would be if it also wrote the word that follows
_execute_store_two_words(s, decoded, cs) ==
    LET store_data == RF_read(s.registers, decoded.rs2)
        first == write_word(s.dmem, data_address(s, decoded), store_data).memory
    IN  [s EXCEPT !.dmem = write_word(first, data_address(s, decoded) + 1,
                                      store_data).memory]

_execute_store(s, decoded, cs) ==
    LET store_data == RF_read(s.registers, decoded.rs2)
    IN  [s EXCEPT !.dmem = write_word(@, data_address(s, decoded), store_data).memory]

\* _execute_branch as it would be if a taken branch were relative to the
\* next instruction
_execute_branch_from_next(s, decoded, cs) ==
    LET rs1_value == RF_read(s.registers, decoded.rs1)
        rs2_value == RF_read(s.registers, decoded.rs2)
        r == ALU_execute(s.alu, rs1_value, rs2_value, cs.alu_operation)
        branch_taken == r.value = 1
    IN  IF branch_taken
        THEN [s EXCEPT !.alu = r.alu,
                       !.pc = Mask16(s.pc + 1 + decoded.offset),
                       !.pc_updated = TRUE]
        ELSE [s EXCEPT !.alu = r.alu, !.pc_updated = FALSE]

_execute_branch(s, decoded, cs) ==
    LET rs1_value == RF_read(s.registers, decoded.rs1)
        rs2_value == RF_read(s.registers, decoded.rs2)
        r == ALU_execute(s.alu, rs1_value, rs2_value, cs.alu_operation)
        branch_taken == r.value = 1
    IN  IF branch_taken
        THEN [s EXCEPT !.alu = r.alu,
                       !.pc = Mask16(s.pc + decoded.offset),
                       !.pc_updated = TRUE]
        ELSE [s EXCEPT !.alu = r.alu, !.pc_updated = FALSE]

\* _execute_jump as it would be if the return address were the address of
\* the JAL itself
_execute_jump_links_pc(s, decoded, cs) ==
    LET return_address == Mask16(s.pc)
    IN  [s EXCEPT !.registers = RF_write(@, decoded.rd, return_address).regs,
                  !.pc = Mask16(s.pc + decoded.offset),
                  !.pc_updated = TRUE]

_execute_jump(s, decoded, cs) ==
    LET return_address == Mask16(s.pc + 1)
    IN  [s EXCEPT !.registers = RF_write(@, decoded.rd, return_address).regs,
                  !.pc = Mask16(s.pc + decoded.offset),
                  !.pc_updated = TRUE]

_execute_special(s, decoded, cs) ==
    IF decoded.instruction_name = "HALT"
    THEN [s EXCEPT !.halted = TRUE]
    ELSE s

\* _update_pc as it would be if "halt" advanced the PC like "increment"
_update_pc_halt_increments(s, cs) ==
    IF s.pc_updated
    THEN [s EXCEPT !.pc_updated = FALSE]
    ELSE CASE cs.pc_update \in {"increment", "conditional", "halt"} ->
                  [s EXCEPT !.pc = Mask16(s.pc + 1)]
           [] OTHER -> s

_update_pc(s, cs) ==
    IF s.pc_updated
    THEN [s EXCEPT !.pc_updated = FALSE]
    ELSE CASE cs.pc_update = "increment" -> [s EXCEPT !.pc = Mask16(s.pc + 1)]
           [] cs.pc_update = "conditional" -> [s EXCEPT !.pc = Mask16(s.pc + 1)]
           [] cs.pc_update = "halt" -> [s EXCEPT !.halted = TRUE]
           [] OTHER -> s

_execute_instruction(s, decoded, cs) ==
    LET t == CASE decoded.type = "R" -> _execute_r_type(s, decoded, cs)
               [] decoded.type = "I" ->
                      IF decoded.instruction_name = "LW"
                      THEN _execute_load(s, decoded, cs)
                      ELSE _execute_i_type(s, decoded, cs)
               [] decoded.type = "S" -> _execute_store(s, decoded, cs)
               [] decoded.type = "B" -> _execute_branch(s, decoded, cs)
               [] decoded.type = "J" -> _execute_jump(s, decoded, cs)
               [] decoded.type = "Special" -> _execute_special(s, decoded, cs)
    IN  _update_pc(t, cs)

\* _execute_instruction ends in the ValueError of ALU.execute: the handlers
\* of the R-type, I-type (but LW) and B-type instructions call it with the
\* alu_operation signal and catch nothing
_execute_instruction_raises(s, decoded, cs) ==
    /\ \/ decoded.type \in {"R", "B"}
       \/ decoded.type = "I" /\ decoded.instruction_name # "LW"
    /\ ALU_execute(s.alu, RF_read(s.registers, decoded.rs1),
                   IF decoded.type = "I" THEN decoded.immediate
                   ELSE RF_read(s.registers, decoded.rs2),
                   cs.alu_operation).raised

\* the processor as the raising ALU.execute call leaves it
_execute_instruction_raised(s) ==
    [s EXCEPT !.alu = [@ EXCEPT !.overflow_flag = FALSE]]

\* _log_execution as it would be if a full history dropped the new record
\* instead of the oldest
_log_execution_keeps_oldest(s, decoded) ==
    LET log_entry == [cycle |-> s.cycle_count, pc |-> s.pc,
                      instruction |-> decoded.raw_instruction,
                      type |-> decoded.type]
        appended == Append(s.execution_history, log_entry)
    IN  [s EXCEPT !.execution_history =
                      IF Len(appended) > HistoryLimit
                      THEN SubSeq(appended, 1, HistoryLimit)
                      ELSE appended]

_log_execution(s, decoded) ==
    LET log_entry == [cycle |-> s.cycle_count, pc |-> s.pc,
                      instruction |-> decoded.raw_instruction,
                      type |-> decoded.type]
        appended == Append(s.execution_history, log_entry)
    IN  [s EXCEPT !.execution_history =
                      IF Len(appended) > HistoryLimit THEN Tail(appended)
                      ELSE appended]

\* step() as it would be if an invalid instruction did not advance the PC
step_stuck(s) ==
    IF s.halted THEN [s |-> s, ret |-> FALSE, raised |-> FALSE]
    ELSE LET instruction == read_instruction(imem, s.pc)
         IN  IF instruction = 0 /\ s.pc >= program_size
             THEN [s |-> [s EXCEPT !.halted = TRUE], ret |-> FALSE,
                   raised |-> FALSE]
             ELSE LET decoded == decode(instruction)
                  IN  IF ~decoded.valid
                      THEN [s |-> [s EXCEPT !.cycle_count = s.cycle_count + 1],
                            ret |-> TRUE, raised |-> FALSE]
                      ELSE LET cs == generate_control_signals(decoded)
                               d == [s EXCEPT !.decode_history =
                                        decode_appends(@, instruction)]
                               e == _execute_instruction(d, decoded, cs)
                               l == _log_execution(e, decoded)
                               c == [l EXCEPT
                                       !.cycle_count = l.cycle_count + 1,
                                       !.instruction_count = l.instruction_count + 1]
                           IN  IF _execute_instruction_raises(s, decoded, cs)
                               THEN [s |-> _execute_instruction_raised(d),
                                     ret |-> FALSE, raised |-> TRUE]
                               ELSE [s |-> c, ret |-> ~c.halted,
                                     raised |-> FALSE]

\* step() as it would be if a call on a halted processor counted a cycle
step_counts_halted(s) ==
    IF s.halted
    THEN [s |-> [s EXCEPT !.cycle_count = s.cycle_count + 1], ret |-> FALSE,
          raised |-> FALSE]
    ELSE LET instruction == read_instruction(imem, s.pc)
         IN  IF instruction = 0 /\ s.pc >= program_size
             THEN [s |-> [s EXCEPT !.halted = TRUE], ret |-> FALSE,
                   raised |-> FALSE]
             ELSE LET decoded == decode(instruction)
                  IN  IF ~decoded.valid
                      THEN [s |-> [s EXCEPT !.pc = s.pc + 1,
                                            !.cycle_count = s.cycle_count + 1],
                            ret |-> TRUE, raised |-> FALSE]
                      ELSE LET cs == generate_control_signals(decoded)
                               d == [s EXCEPT !.decode_history =
                                        decode_appends(@, instruction)]
                               e == _execute_instruction(d, decoded, cs)
                               l == _log_execution(e, decoded)
                               c == [l EXCEPT
                                       !.cycle_count = l.cycle_count + 1,
                                       !.instruction_count = l.instruction_count + 1]
                           IN  IF _execute_instruction_raises(s, decoded, cs)
                               THEN [s |-> _execute_instruction_raised(d),
                                     ret |-> FALSE, raised |-> TRUE]
                               ELSE [s |-> c, ret |-> ~c.halted,
                                     raised |-> FALSE]

\* step() as it would be if the stop at the end of the program counted a
\* cycle
step_counts_end(s) ==
    IF s.halted THEN [s |-> s, ret |-> FALSE, raised |-> FALSE]
    ELSE LET instruction == read_instruction(imem, s.pc)
         IN  IF instruction = 0 /\ s.pc >= program_size
             THEN [s |-> [s EXCEPT !.halted = TRUE,
                                   !.cycle_count = s.cycle_count + 1],
                   ret |-> FALSE, raised |-> FALSE]
             ELSE LET decoded == decode(instruction)
                  IN  IF ~decoded.valid
                      THEN [s |-> [s EXCEPT !.pc = s.pc + 1,
                                            !.cycle_count = s.cycle_count + 1],
                            ret |-> TRUE, raised |-> FALSE]
                      ELSE LET cs == generate_control_signals(decoded)
                               d == [s EXCEPT !.decode_history =
                                        decode_appends(@, instruction)]
                               e == _execute_instruction(d, decoded, cs)
                               l == _log_execution(e, decoded)
                               c == [l EXCEPT
                                       !.cycle_count = l.cycle_count + 1,
                                       !.instruction_count = l.instruction_count + 1]
                           IN  IF _execute_instruction_raises(s, decoded, cs)
                               THEN [s |-> _execute_instruction_raised(d),
                                     ret |-> FALSE, raised |-> TRUE]
                               ELSE [s |-> c, ret |-> ~c.halted,
                                     raised |-> FALSE]

\* RiscVProcessor.step on the loaded instruction memory: [s, ret]
step(s) ==
    IF s.halted THEN [s |-> s, ret |-> FALSE, raised |-> FALSE]
    ELSE LET instruction == read_instruction(imem, s.pc)
         IN  IF instruction = 0 /\ s.pc >= program_size
             THEN [s |-> [s EXCEPT !.halted = TRUE], ret |-> FALSE,
                   raised |-> FALSE]
             ELSE LET decoded == decode(instruction)
                  IN  IF ~decoded.valid
                      THEN [s |-> [s EXCEPT !.pc = s.pc + 1,
                                            !.cycle_count = s.cycle_count + 1],
                            ret |-> TRUE, raised |-> FALSE]
                      ELSE LET cs == generate_control_signals(decoded)
                               d == [s EXCEPT !.decode_history =
                                        decode_appends(@, instruction)]
                               e == _execute_instruction(d, decoded, cs)
                               l == _log_execution(e, decoded)
                               c == [l EXCEPT
                                       !.cycle_count = l.cycle_count + 1,
                                       !.instruction_count = l.instruction_count + 1]
                           IN  IF _execute_instruction_raises(s, decoded, cs)
                               THEN [s |-> _execute_instruction_raised(d),
                                     ret |-> FALSE, raised |-> TRUE]
                               ELSE [s |-> c, ret |-> ~c.halted,
                                     raised |-> FALSE]

\* the loop of run() as it would be with "<=" for "<" in its condition
RECURSIVE run_loop_inclusive(_, _, _, _)
run_loop_inclusive(s, cycles_executed, calls, max_cycles) ==
    IF cycles_executed <= max_cycles /\ ~s.halted
    THEN CHOOSE w \in
           { IF ~r.ret
             THEN [s |-> r.s, cycles_executed |-> cycles_executed,
                   calls |-> calls + 1, raised |-> r.raised]
             ELSE run_loop_inclusive(r.s, cycles_executed + 1, calls + 1,
                                     max_cycles)
             : r \in {step(s)} } : TRUE
    ELSE [s |-> s, cycles_executed |-> cycles_executed, calls |-> calls,
          raised |-> FALSE]

\* the while loop of RiscVProcessor.run: [s, cycles_executed, calls,
\* raised], raised when a step() call raised, which ends the loop
RECURSIVE run_loop(_, _, _, _)
run_loop(s, cycles_executed, calls, max_cycles) ==
    IF cycles_executed < max_cycles /\ ~s.halted
    THEN CHOOSE w \in
           { IF ~r.ret
             THEN [s |-> r.s, cycles_executed |-> cycles_executed,
                   calls |-> calls + 1, raised |-> r.raised]
             ELSE run_loop(r.s, cycles_executed + 1, calls + 1, max_cycles)
             : r \in {step(s)} } : TRUE
    ELSE [s |-> s, cycles_executed |-> cycles_executed, calls |-> calls,
          raised |-> FALSE]

\* RiscVProcessor.run: [s, ret, calls, raised].  The while loop is
\* evaluated in two parts, its first max_cycles \div 2 iterations (h) and
\* the rest (w): the loop leaves its first part with the budget of that
\* part used up, with the processor halted or with an exception, and but
\* for the exception goes on from there
run(s, max_cycles) ==
    CHOOSE r \in
      { [s |-> w.s,
         ret |-> ~w.raised /\ ~(w.cycles_executed >= max_cycles),
         calls |-> w.calls, raised |-> w.raised] :
          w \in { IF h.raised THEN h
                  ELSE run_loop(h.s, h.cycles_executed, h.calls, max_cycles) :
                    h \in {run_loop(s, 0, 0, max_cycles \div 2)} } } : TRUE

\* RiscVProcessor.reset as it would be without register_file.reset_all()
reset_keeps_registers(s) ==
    [pc |-> 0, halted |-> FALSE, cycle_count |-> 0, instruction_count |-> 0,
     registers |-> s.registers, dmem |-> DM_init,
     alu |-> ALU_init, pc_updated |-> s.pc_updated,
     execution_history |-> << >>, decode_history |-> s.decode_history]

\* RiscVProcessor.reset as it would be without clear_memory()
reset_keeps_data(s) ==
    [pc |-> 0, halted |-> FALSE, cycle_count |-> 0, instruction_count |-> 0,
     registers |-> RF_reset_all(s.registers), dmem |-> s.dmem,
     alu |-> ALU_init, pc_updated |-> s.pc_updated,
     execution_history |-> << >>, decode_history |-> s.decode_history]

\* RiscVProcessor.reset
reset(s) ==
    [pc |-> 0, halted |-> FALSE, cycle_count |-> 0, instruction_count |-> 0,
     registers |-> RF_reset_all(s.registers), dmem |-> DM_init,
     alu |-> ALU_init, pc_updated |-> s.pc_updated,
     execution_history |-> << >>, decode_history |-> s.decode_history]

\* the variables take the processor state s
SetCPU(s) ==
    /\ pc' = s.pc
    /\ halted' = s.halted
    /\ cycle_count' = s.cycle_count
    /\ instruction_count' = s.instruction_count
    /\ registers' = s.registers
    /\ dmem' = s.dmem
    /\ alu' = s.alu
    /\ pc_updated' = s.pc_updated
    /\ execution_history' = s.execution_history
    /\ decode_history' = s.decode_history

----------------------------------------------------------------------------
(* Assembler.py *)

(* A source line is its label (the text before ':', "" if none), its      *)
(* mnemonic in upper case ("" if the line holds no instruction) and its   *)
(* operand tokens.  A token is an identifier, a decimal number, a 0x      *)
(* number, or a memory operand v(name) whose offset text may be empty.    *)
Line(label, instruction, operands) ==
    [label |-> label, instruction |-> instruction, operands |-> operands]
Tok(k, name, v) == [k |-> k, name |-> name, v |-> v]
Id(name) == Tok("id", name, 0)
Num(v) == Tok("num", "", v)
Hex(v) == Tok("hex", "", v)
Mem(v, name) == Tok("mem", name, v)

\* RiscVAssembler.opcodes
opcodes ==
    [n \in {"ADD", "SUB", "AND", "OR", "XOR", "ADDI", "ANDI", "ORI", "LW",
            "SW", "BEQ", "BNE", "JAL", "NOP", "HALT"} |->
        CASE n = "ADD" -> 0 [] n = "SUB" -> 1 [] n = "AND" -> 2
          [] n = "OR" -> 3 [] n = "XOR" -> 4 [] n = "ADDI" -> 5
          [] n = "ANDI" -> 6 [] n = "ORI" -> 7 [] n = "LW" -> 8
          [] n = "SW" -> 9 [] n = "BEQ" -> 10 [] n = "BNE" -> 11
          [] n = "JAL" -> 12 [] n = "NOP" -> 14 [] n = "HALT" -> 15]

\* RiscVAssembler.register_map
register_map ==
    [n \in {"x0", "x1", "x2", "x3", "x4", "x5", "x6", "x7", "x8", "x9",
            "x10", "x11", "x12", "x13", "x14", "x15", "zero", "ra", "sp",
            "gp", "tp", "t0", "t1", "t2", "s0", "s1", "a0", "a1", "a2",
            "a3", "a4", "a7"} |->
        CASE n \in {"x0", "zero"} -> 0 [] n \in {"x1", "ra"} -> 1
          [] n \in {"x2", "sp"} -> 2 [] n \in {"x3", "gp"} -> 3
          [] n \in {"x4", "tp"} -> 4 [] n \in {"x5", "t0"} -> 5
          [] n \in {"x6", "t1"} -> 6 [] n \in {"x7", "t2"} -> 7
          [] n \in {"x8", "s0"} -> 8 [] n \in {"x9", "s1"} -> 9
          [] n \in {"x10", "a0"} -> 10 [] n \in {"x11", "a1"} -> 11
          [] n \in {"x12", "a2"} -> 12 [] n \in {"x13", "a3"} -> 13
          [] n \in {"x14", "a4"} -> 14 [] n \in {"x15", "a7"} -> 15]

\* RiscVAssembler.get_instruction_type
get_instruction_type(instruction) ==
    CASE instruction \in {"ADD", "SUB", "AND", "OR", "XOR"} -> "R"
      [] instruction \in {"ADDI", "ANDI", "ORI", "LW"} -> "I"
      [] instruction = "SW" -> "S"
      [] instruction \in {"BEQ", "BNE"} -> "B"
      [] instruction = "JAL" -> "J"
      [] instruction \in {"NOP", "HALT"} -> "Special"
      [] OTHER -> "ValueError"

\* the outcome of an encoding step: a value, or ValueError raised
Ok(v) == [ok |-> TRUE, v |-> v]
Raise == [ok |-> FALSE, v |-> 0]

\* RiscVAssembler.parse_register
parse_register(tok) ==
    IF tok.k = "id" /\ tok.name \in DOMAIN register_map
    THEN Ok(register_map[tok.name])
    ELSE Raise

\* Python's int(text) on a token: only decimal text converts
int(tok) == IF tok.k = "num" THEN Ok(tok.v) ELSE Raise

\* RiscVAssembler.parse_immediate
parse_immediate(tok) ==
    LET value == IF tok.k = "hex" THEN Ok(tok.v) ELSE int(tok)
    IN  IF ~value.ok THEN Raise
        ELSE IF value.v < -8 \/ value.v > 15 THEN Raise
        ELSE IF value.v < 0 THEN Ok((16 + value.v) % 16)
        ELSE Ok(value.v % 16)

\* the offset(rs1) operand of LW and SW: [ok, offset, rs1]
mem_operand(tok) ==
    IF tok.k # "mem" THEN [ok |-> FALSE, offset |-> 0, rs1 |-> 0]
    ELSE LET offset == IF tok.v = None THEN 0 ELSE tok.v
             rs1 == parse_register(Id(tok.name))
         IN  [ok |-> rs1.ok, offset |-> offset % 16, rs1 |-> rs1.v]

_encode_r_type(opcode, operands) ==
    IF Len(operands) # 3 THEN Raise
    ELSE LET rd == parse_register(operands[1])
             rs1 == parse_register(operands[2])
             rs2 == parse_register(operands[3])
         IN  IF rd.ok /\ rs1.ok /\ rs2.ok
             THEN Ok(opcode * 4096 + rd.v * 256 + rs1.v * 16 + rs2.v)
             ELSE Raise

_encode_i_type(opcode, operands, instruction) ==
    IF instruction = "LW"
    THEN IF Len(operands) # 2 THEN Raise
         ELSE LET rd == parse_register(operands[1])
                  m == mem_operand(operands[2])
              IN  IF rd.ok /\ m.ok
                  THEN Ok(opcode * 4096 + rd.v * 256 + m.rs1 * 16 + m.offset)
                  ELSE Raise
    ELSE IF Len(operands) # 3 THEN Raise
         ELSE LET rd == parse_register(operands[1])
                  rs1 == parse_register(operands[2])
                  imm == parse_immediate(operands[3])
              IN  IF rd.ok /\ rs1.ok /\ imm.ok
                  THEN Ok(opcode * 4096 + rd.v * 256 + rs1.v * 16 + imm.v)
                  ELSE Raise

_encode_s_type(opcode, operands) ==
    IF Len(operands) # 2 THEN Raise
    ELSE LET rs2 == parse_register(operands[1])
             m == mem_operand(operands[2])
         IN  IF rs2.ok /\ m.ok
             THEN Ok(opcode * 4096 + rs2.v * 256 + m.rs1 * 16 + m.offset)
             ELSE Raise

\* is the target operand a key of the label table
in_labels(target, lbls) == target.k = "id" /\ target.name \in DOMAIN lbls

\* _encode_b_type as it would be without the "- 1" in the label offset
_encode_b_type_no_minus_one(opcode, operands, current_address, lbls) ==
    IF Len(operands) # 3 THEN Raise
    ELSE LET rs1 == parse_register(operands[1])
             rs2 == parse_register(operands[2])
             target == operands[3]
             offset == IF in_labels(target, lbls)
                       THEN Ok((lbls[target.name] - current_address) % 16)
                       ELSE LET n == int(target)
                            IN  IF n.ok THEN Ok(n.v % 16) ELSE Raise
         IN  IF rs1.ok /\ rs2.ok /\ offset.ok
             THEN Ok(opcode * 4096 + rs1.v * 256 + rs2.v * 16 + offset.v)
             ELSE Raise

_encode_b_type(opcode, operands, current_address, lbls) ==
    IF Len(operands) # 3 THEN Raise
    ELSE LET rs1 == parse_register(operands[1])
             rs2 == parse_register(operands[2])
             target == operands[3]
             offset == IF in_labels(target, lbls)
                       THEN Ok((lbls[target.name] - current_address - 1) % 16)
                       ELSE LET n == int(target)
                            IN  IF n.ok THEN Ok(n.v % 16) ELSE Raise
         IN  IF rs1.ok /\ rs2.ok /\ offset.ok
             THEN Ok(opcode * 4096 + rs1.v * 256 + rs2.v * 16 + offset.v)
             ELSE Raise

_encode_j_type(opcode, operands, current_address, lbls) ==
    IF Len(operands) # 2 THEN Raise
    ELSE LET rd == parse_register(operands[1])
             target == operands[2]
             offset == IF in_labels(target, lbls)
                       THEN Ok((lbls[target.name] - current_address - 1) % 256)
                       ELSE LET n == int(target)
                            IN  IF n.ok THEN Ok(n.v % 256) ELSE Raise
         IN  IF rd.ok /\ offset.ok
             THEN Ok(opcode * 4096 + rd.v * 256 + offset.v)
             ELSE Raise

_encode_special(opcode) == Ok(opcode * 4096)

\* RiscVAssembler.encode_instruction
encode_instruction(instruction_info, lbls) ==
    LET instruction == instruction_info.instruction
        operands == instruction_info.operands
    IN  IF instruction \notin DOMAIN opcodes THEN Raise
        ELSE LET opcode == opcodes[instruction]
                 inst_type == get_instruction_type(instruction)
             IN  CASE inst_type = "R" -> _encode_r_type(opcode, operands)
                   [] inst_type = "I" ->
                          _encode_i_type(opcode, operands, instruction)
                   [] inst_type = "S" -> _encode_s_type(opcode, operands)
                   [] inst_type = "B" ->
                          _encode_b_type(opcode, operands,
                                         instruction_info.address, lbls)
                   [] inst_type = "J" ->
                          _encode_j_type(opcode, operands,
                                         instruction_info.address, lbls)
                   [] inst_type = "Special" -> _encode_special(opcode)

\* a dict with key k set to v
Put(d, k, v) == [x \in DOMAIN d \cup {k} |-> IF x = k THEN v ELSE d[x]]

\* the first pass as it would be if every line consumed an address
RECURSIVE _first_pass_counting_lines(_, _, _, _, _)
_first_pass_counting_lines(lines, line_num, address, lbls, instrs) ==
    IF line_num > Len(lines)
    THEN [labels |-> lbls, instructions |-> instrs]
    ELSE LET line == lines[line_num]
             lbls1 == IF line.label # "" THEN Put(lbls, line.label, address)
                      ELSE lbls
         IN  _first_pass_counting_lines(
                 lines, line_num + 1, address + 1, lbls1,
                 IF line.instruction # ""
                 THEN Append(instrs,
                             [instruction |-> line.instruction,
                              operands |-> line.operands,
                              address |-> address,
                              line_number |-> line_num])
                 ELSE instrs)

\* RiscVAssembler._first_pass from line number line_num on:
\* [labels, instructions]
RECURSIVE _first_pass(_, _, _, _, _)
_first_pass(lines, line_num, address, lbls, instrs) ==
    IF line_num > Len(lines)
    THEN [labels |-> lbls, instructions |-> instrs]
    ELSE LET line == lines[line_num]
             lbls1 == IF line.label # "" THEN Put(lbls, line.label, address)
                      ELSE lbls
         IN  IF line.instruction # ""
             THEN _first_pass(lines, line_num + 1, address + 1, lbls1,
                              Append(instrs,
                                     [instruction |-> line.instruction,
                                      operands |-> line.operands,
                                      address |-> address,
                                      line_number |-> line_num]))
             ELSE _first_pass(lines, line_num + 1, address, lbls1, instrs)

\* RiscVAssembler._second_pass from the k-th instruction on:
\* [machine_code, emitted]
RECURSIVE _second_pass(_, _, _, _, _)
_second_pass(instrs, lbls, k, code, emit) ==
    IF k > Len(instrs)
    THEN [machine_code |-> code, emitted |-> emit]
    ELSE LET e == encode_instruction(instrs[k], lbls)
         IN  IF e.ok
             THEN _second_pass(instrs, lbls, k + 1, Append(code, e.v),
                               Append(emit, Len(code) + 1))
             ELSE _second_pass(instrs, lbls, k + 1, code, Append(emit, 0))

\* RiscVAssembler.assemble_file on the lines of the file
assemble_file(lines) ==
    LET p1 == _first_pass(lines, 1, 0, << >>, << >>)
        p2 == _second_pass(p1.instructions, p1.labels, 1, << >>, << >>)
    IN  [labels |-> p1.labels, instructions |-> p1.instructions,
         machine_code |-> p2.machine_code, emitted |-> p2.emitted]

----------------------------------------------------------------------------
(* The processor running a program loaded with load_program_direct *)

\* the words programs are made of
ProgWords ==
    { 20737,   \* 0x5101  addi x1, x0, 1
      53248,   \* 0xD000  no such opcode
      61440,   \* 0xF000  halt
      57344,   \* 0xE000  nop
      45327,   \* 0xB10F  bne x1, x0, -1
      40960,   \* 0xA000  beq x0, x0, 0
      49662,   \* 0xC1FE  jal x1, -2
      37121,   \* 0x9101  sw x1, 1(x0)
      33281,   \* 0x8201  lw x2, 1(x0)
      530 }    \* 0x0212  add x2, x1, x2

Programs == UNION { [1..n -> ProgWords] : n \in 1..MaxProg }

\* the state after construction of the processor and the assembler
Constructed ==
    /\ pc = CPU_init.pc
    /\ halted = CPU_init.halted
    /\ cycle_count = CPU_init.cycle_count
    /\ instruction_count = CPU_init.instruction_count
    /\ registers = CPU_init.registers
    /\ dmem = CPU_init.dmem
    /\ alu = CPU_init.alu
    /\ pc_updated = CPU_init.pc_updated
    /\ execution_history = CPU_init.execution_history
    /\ decode_history = CPU_init.decode_history
    /\ strict_mode = ProcessorErrorHandler(FALSE).strict_mode
    /\ error_count = ProcessorErrorHandler(FALSE).error_count
    /\ error_log = ProcessorErrorHandler(FALSE).error_log
    /\ exception = NoException
    /\ imem = IM_init
    /\ program_size = 0
    /\ labels = << >>
    /\ instructions = << >>
    /\ machine_code = << >>
    /\ emitted = << >>
    /\ source = << >>
    /\ call = Call("init", << >>)
    /\ ret = FALSE
    /\ raised = ""
    /\ step_calls = 0

Init == Constructed

\* load_program_direct(words) on the constructed processor
LoadProgramDirect ==
    /\ program_size = 0 /\ cycle_count = 0 /\ ~halted
    /\ \E words \in Programs :
          LET r == load_program(imem, program_size, words, 0)
          IN  /\ imem' = r.memory
              /\ program_size' = r.program_size
              /\ call' = Call("load_program_direct", << words >>)
              /\ ret' = r.ok
    /\ step_calls' = 0
    /\ raised' = ""
    /\ UNCHANGED << cpuVars, asmVars, errVars >>

\* step()
Step ==
    /\ cycle_count < MaxCycles
    /\ \E r \in {step(CPU)} :
          /\ SetCPU(r.s)
          /\ ret' = r.ret
          /\ raised' = IF r.raised THEN "ValueError" ELSE ""
    /\ call' = Call("step", << >>)
    /\ step_calls' = 1
    /\ UNCHANGED << memVars, asmVars, errVars >>

\* run(max_cycles)
Run ==
    /\ cycle_count < MaxCycles
    /\ \E max_cycles \in 0..MaxBudget :
          \E r \in {run(CPU, max_cycles)} :
              /\ SetCPU(r.s)
              /\ ret' = r.ret
              /\ step_calls' = r.calls
              /\ call' = Call("run", << max_cycles >>)
              /\ raised' = IF r.raised THEN "ValueError" ELSE ""
    /\ UNCHANGED << memVars, asmVars, errVars >>

\* reset()
Reset ==
    /\ Len(decode_history) < MaxDecodes
    /\ \E s \in {reset(CPU)} : SetCPU(s)
    /\ call' = Call("reset", << >>)
    /\ ret' = FALSE
    /\ raised' = ""
    /\ step_calls' = 0
    /\ UNCHANGED << memVars, asmVars, errVars >>

Next == LoadProgramDirect \/ Step \/ Run \/ Reset

Spec == Init /\ [][Next]_vars

----------------------------------------------------------------------------
(* Claims about the processor core, checked under Spec *)

\* the word step() would fetch in this state
Fetched == read_instruction(imem, pc)

\* this transition is a call of step() on a processor that is not halted
\* and does not stop at the end of the program
StepExecutes ==
    /\ call'.op = "step"
    /\ ~halted
    /\ ~(Fetched = 0 /\ pc >= program_size)

\* C4: run(max_cycles) returns true if and only if the halted flag is set
\* when it returns
C4_RunTrueIffHalted ==
    call.op = "run" => (ret <=> halted)

\* C5: run(max_cycles) calls step() at most max_cycles times, and the cycle
\* counter grows by at most max_cycles during the call
C5_RunBounded ==
    [][call'.op = "run" =>
          /\ step_calls' <= call'.args[1]
          /\ cycle_count' <= cycle_count + call'.args[1]]_vars

\* run() used up a budget of at least one cycle on a program that did not halt
C5_Witness ==
    /\ call.op = "run"
    /\ call.args[1] >= 1
    /\ step_calls = call.args[1]
    /\ ~halted
    /\ ret = FALSE

\* C6: when the word fetched inside the loaded program has an opcode with no
\* ISA entry, step() advances the PC by 1, counts one cycle, leaves the
\* instruction counter, the registers, data memory and the halted flag
\* unchanged, and returns true
C6_InvalidIsSkipped ==
    [][(StepExecutes /\ pc < program_size /\ ~decode(Fetched).valid) =>
          /\ pc' = pc + 1
          /\ cycle_count' = cycle_count + 1
          /\ instruction_count' = instruction_count
          /\ registers' = registers
          /\ dmem' = dmem
          /\ halted' = halted
          /\ ret' = TRUE]_vars

\* an invalid word was stepped over and the valid instruction after it executed
C6_Witness ==
    /\ call.op = "step"
    /\ cycle_count = 2
    /\ instruction_count = 1
    /\ ~decode(imem[0]).valid
    /\ Len(execution_history) = 1
    /\ execution_history[1].instruction = imem[1]
    /\ execution_history[1].cycle = 1

\* C7: executing HALT sets the halted flag, leaves the PC at the HALT
\* instruction's own address, changes no register and no data memory word,
\* and step() returns false
C7_HaltStops ==
    [][(StepExecutes /\ decode(Fetched).instruction_name = "HALT") =>
          /\ halted'
          /\ pc' = pc
          /\ registers' = registers
          /\ dmem' = dmem
          /\ ret' = FALSE]_vars

\* the last step executed the HALT instruction the PC still points at,
\* after an instruction that wrote a register
C7_Witness ==
    /\ call.op = "step"
    /\ halted
    /\ ret = FALSE
    /\ Len(execution_history) >= 1
    /\ execution_history[Len(execution_history)].cycle = cycle_count - 1
    /\ decode(execution_history[Len(execution_history)].instruction).instruction_name = "HALT"
    /\ Fetched = execution_history[Len(execution_history)].instruction
    /\ registers[1] # 0

\* C24: every step() call made while the processor is not halted adds
\* exactly 1 to the cycle counter, and adds to the instruction counter 1
\* when the fetched word decodes validly and 0 when it does not
C24_Bookkeeping ==
    [][(call'.op = "step" /\ ~halted) =>
          /\ cycle_count' = cycle_count + 1
          /\ instruction_count' =
                 instruction_count + (IF decode(Fetched).valid THEN 1 ELSE 0)
       ]_vars

\* the same of the step() calls that do not stop at the end of the program
BookkeepingButAtEnd ==
    [][StepExecutes =>
          /\ cycle_count' = cycle_count + 1
          /\ instruction_count' =
                 instruction_count + (IF decode(Fetched).valid THEN 1 ELSE 0)
       ]_vars

\* step() stopped at the end of the program: the processor was running,
\* and the call counted no cycle
StoppedAtEnd ==
    /\ call.op = "step"
    /\ halted /\ ret = FALSE
    /\ pc >= program_size /\ Fetched = 0
    /\ program_size > 0
    /\ cycle_count = program_size

\* C31: once the halted flag is set it stays set until reset() is called,
\* and every step() on a halted processor returns false and leaves the PC,
\* the registers, data memory, both counters and the execution history
\* unchanged
C31_HaltedAbsorbing ==
    [][halted =>
          /\ call'.op # "reset" => halted'
          /\ call'.op = "step" =>
                /\ ret' = FALSE
                /\ pc' = pc
                /\ registers' = registers
                /\ dmem' = dmem
                /\ cycle_count' = cycle_count
                /\ instruction_count' = instruction_count
                /\ execution_history' = execution_history
       ]_vars

\* step() returned false on a processor that run() had left halted at
\* its HALT instruction, three cycles after reset
C31_Witness ==
    /\ call.op = "step"
    /\ halted
    /\ ret = FALSE
    /\ decode(Fetched).instruction_name = "HALT"
    /\ cycle_count = 3
    /\ instruction_count = 3
    /\ Len(execution_history) = 3

\* this transition is a call of step() on a processor that is not halted
\* and finds the word 0 at a PC at or beyond the program length
StepAtEnd ==
    /\ call'.op = "step"
    /\ ~halted
    /\ Fetched = 0 /\ pc >= program_size

\* C37: step() on a processor that is not halted, with the PC at or
\* beyond the program length and the word 0 fetched there, sets halted and
\* returns false, leaving the PC, registers, data memory, both counters
\* and the history unchanged; and a step() sets halted only so or by
\* executing HALT
C37_EndOfProgram ==
    [][/\ StepAtEnd =>
             /\ halted'
             /\ ret' = FALSE
             /\ pc' = pc
             /\ registers' = registers
             /\ dmem' = dmem
             /\ cycle_count' = cycle_count
             /\ instruction_count' = instruction_count
             /\ execution_history' = execution_history
       /\ (call'.op = "step" /\ ~halted /\ halted') =>
             \/ StepAtEnd
             \/ decode(Fetched).instruction_name = "HALT"
      ]_vars

\* step() stopped behind "addi x1, x0, 1 / nop": two cycles and two
\* instructions counted, the PC at the program length
C37_Witness ==
    /\ call.op = "step"
    /\ halted /\ ret = FALSE
    /\ imem[0] = 20737 /\ imem[1] = 57344
    /\ program_size = 2
    /\ pc = 2 /\ Fetched = 0
    /\ cycle_count = 2 /\ instruction_count = 2
    /\ Len(execution_history) = 2
    /\ registers[1] = 1

\* this transition is a call of step() that executes an instruction and
\* appends its record to the history
StepLogged ==
    /\ call'.op = "step"
    /\ instruction_count' = instruction_count + 1
    /\ execution_history' # << >>

\* the record the transition appended
LastRecord == execution_history'[Len(execution_history')]

\* C39: the record step() appends carries the PC the instruction was
\* fetched from, not the PC after it executed, and the cycle it executed in
C39_RecordFetchPC ==
    [][StepLogged =>
          /\ LastRecord.pc = pc
          /\ LastRecord.cycle = cycle_count
          /\ LastRecord.instruction = Fetched
      ]_vars

\* what holds instead: the record carries the PC after the instruction
\* executed, with the cycle counter as it was before the step
RecordPCAfterExecution ==
    [][StepLogged =>
          /\ LastRecord.pc = pc'
          /\ LastRecord.cycle = cycle_count
          /\ LastRecord.cycle = cycle_count' - 1
          /\ LastRecord.instruction = Fetched
      ]_vars

\* the first step() of "addi x1, x0, 1 / nop" has left one record, and it
\* names address 1 for the instruction fetched from address 0
RecordNamesNextPC ==
    /\ call.op = "step"
    /\ imem[0] = 20737 /\ imem[1] = 57344
    /\ cycle_count = 1 /\ instruction_count = 1
    /\ Len(execution_history) = 1
    /\ execution_history[1].instruction = 20737
    /\ execution_history[1].cycle = 0
    /\ execution_history[1].pc = 1
    /\ pc = 1

----------------------------------------------------------------------------
(* The register file on its own: SpecRF *)

\* register numbers and values handed to read and write
RFIndexes == {-1, 0, 1, 15, 16}
RFValues == {-1, 0, 123, 65535, 65541}

\* RegisterFile.write(reg_num, value)
RFWrite ==
    /\ \E reg_num \in RFIndexes, value \in RFValues :
          LET r == RF_write(registers, reg_num, value)
          IN  /\ registers' = r.regs
              /\ ret' = r.ok
              /\ call' = Call("write", << reg_num, value >>)
    /\ UNCHANGED << pc, halted, cycle_count, instruction_count, dmem, alu,
                    pc_updated, execution_history, decode_history, memVars,
                    asmVars, raised, step_calls, errVars >>

\* RegisterFile.read(reg_num)
RFRead ==
    /\ \E reg_num \in RFIndexes :
          /\ ret' = RF_read(registers, reg_num)
          /\ call' = Call("read", << reg_num >>)
    /\ UNCHANGED << cpuVars, memVars, asmVars, raised, step_calls, errVars >>

\* RegisterFile.reset_all()
RFResetAll ==
    /\ registers' = RF_reset_all(registers)
    /\ ret' = FALSE
    /\ call' = Call("reset_all", << >>)
    /\ UNCHANGED << pc, halted, cycle_count, instruction_count, dmem, alu,
                    pc_updated, execution_history, decode_history, memVars,
                    asmVars, raised, step_calls, errVars >>

NextRF == RFWrite \/ RFRead \/ RFResetAll

SpecRF == Init /\ [][NextRF]_vars

\* C8: after any sequence of write and reset_all operations read(0) returns
\* 0, and every write(0, v) returns false without changing any register
C8_X0HardWired ==
    /\ [](RF_read(registers, 0) = 0)
    /\ [][(call'.op = "read" /\ call'.args[1] = 0) => ret' = 0]_vars
    /\ [][(call'.op = "write" /\ call'.args[1] = 0) =>
             (ret' = FALSE /\ registers' = registers)]_vars

\* write(0, 123) was refused while another register held a written value
C8_Witness ==
    /\ call = Call("write", << 0, 123 >>)
    /\ ret = FALSE
    /\ registers[1] = 123
    /\ registers[0] = 0

\* C9: for i in 1..15, write(i, v) returns true and read(i) then returns
\* v mod 2^16; for an index outside 0..15 read returns 0 and write returns
\* false and changes no register
C9_WriteRead ==
    /\ [][(call'.op = "write" /\ call'.args[1] \in 1..15) =>
             /\ ret' = TRUE
             /\ RF_read(registers', call'.args[1]) = call'.args[2] % 65536]_vars
    /\ [][(call'.op = "write" /\ call'.args[1] \notin 0..15) =>
             (ret' = FALSE /\ registers' = registers)]_vars
    /\ [][(call'.op = "read" /\ call'.args[1] \notin 0..15) => ret' = 0]_vars

\* write(15, 65541) succeeded and left 5 in register 15
C9_Witness ==
    /\ call = Call("write", << 15, 65541 >>)
    /\ ret = TRUE
    /\ RF_read(registers, 15) = 5

----------------------------------------------------------------------------
(* The ALU on its own: SpecALU *)

\* operands and operation codes handed to execute (7 is no operation code)
ALUOperands == {-1, 0, 1, 32768, 65535, 65541}
ALUCodes == 0..7

\* ALU.execute(a, b, operation)
ALUExecute ==
    /\ alu.operation_count < MaxOps
    /\ \E a \in ALUOperands, b \in ALUOperands, operation \in ALUCodes :
          LET r == ALU_execute(alu, a, b, operation)
          IN  /\ alu' = r.alu
              /\ ret' = r.value
              /\ raised' = IF r.raised THEN "ValueError" ELSE ""
              /\ call' = Call("execute", << a, b, operation >>)
    /\ UNCHANGED << pc, halted, cycle_count, instruction_count, registers,
                    dmem, pc_updated, execution_history, decode_history,
                    memVars, asmVars, step_calls, errVars >>

\* ALU.reset()
ALUReset ==
    /\ alu' = ALU_init
    /\ ret' = None
    /\ raised' = ""
    /\ call' = Call("alu_reset", << >>)
    /\ UNCHANGED << pc, halted, cycle_count, instruction_count, registers,
                    dmem, pc_updated, execution_history, decode_history,
                    memVars, asmVars, step_calls, errVars >>

NextALU == ALUExecute \/ ALUReset

SpecALU == Init /\ [][NextALU]_vars

\* C10: with a and b masked to 16 bits, execute(a, b, ADD) returns
\* (a + b) mod 2^16 and leaves the overflow flag set if and only if the
\* unmasked sum a + b exceeds 0xFFFF
C10_AddOverflow ==
    (call.op = "execute" /\ call.args[3] = ALU_ADD) =>
        LET a == call.args[1] % 65536
            b == call.args[2] % 65536
        IN  /\ raised = ""
            /\ ret = (a + b) % 65536
            /\ alu.overflow_flag <=> (a + b > 65535)

\* 0xFFFF + 1 wrapped to 0 with the overflow flag set
C10_Witness ==
    /\ call = Call("execute", << 65535, 1, ALU_ADD >>)
    /\ ret = 0
    /\ alu.overflow_flag
    /\ alu.zero_flag

\* C11: with a and b masked to 16 bits, execute(a, b, SUB) returns
\* (a - b) mod 2^16, a value in 0..0xFFFF; for a < b that is
\* a - b + 0x10000, never a negative number
C11_SubWraps ==
    (call.op = "execute" /\ call.args[3] = ALU_SUB) =>
        LET a == call.args[1] % 65536
            b == call.args[2] % 65536
        IN  /\ raised = ""
            /\ ret \in 0..65535
            /\ ret = (a - b) % 65536
            /\ a < b => ret = a - b + 65536

\* 0 - 1 wrapped to 0xFFFF
C11_Witness ==
    /\ call = Call("execute", << 0, 1, ALU_SUB >>)
    /\ ret = 65535
    /\ alu.negative_flag

C28_FlagsRecomputed ==
    (call.op = "execute" /\ raised = "") =>
        LET a == call.args[1] % 65536
            b == call.args[2] % 65536
        IN  /\ alu.last_result = ret
            /\ alu.zero_flag <=> (ret = 0)
            /\ alu.negative_flag <=> ((ret \div 32768) % 2 = 1)
            /\ alu.overflow_flag =>
                  (call.args[3] = ALU_ADD /\ a + b > 65535)

\* the second call in a row, 0xFFFF AND 0x8000, left negative set and
\* zero and overflow clear
C28_Witness ==
    /\ call = Call("execute", << 65535, 32768, ALU_AND >>)
    /\ raised = ""
    /\ alu.operation_count = 2
    /\ ret = 32768
    /\ alu.negative_flag
    /\ ~alu.zero_flag
    /\ ~alu.overflow_flag

\* C36: an execute call with an unrecognized operation code leaves the ALU
\* as it was before the call: last result, the zero, overflow and negative
\* flags and the operation count are unchanged
C36_FailedCallKeepsState ==
    [][(call'.op = "execute" /\ raised' = "ValueError") => alu' = alu]_vars

\* the same of everything but the overflow flag
FailedCallKeepsButOverflow ==
    [][(call'.op = "execute" /\ raised' = "ValueError") =>
          /\ alu'.last_result = alu.last_result
          /\ alu'.zero_flag = alu.zero_flag
          /\ alu'.negative_flag = alu.negative_flag
          /\ alu'.operation_count = alu.operation_count
          /\ ~alu'.overflow_flag
       ]_vars

\* execute(1, 1, 7) raised after 0xFFFF + 1 had set the overflow flag: the
\* result 0 and the zero flag of the ADD are still there, the overflow
\* flag is not
OverflowLostByFailedCall ==
    /\ call = Call("execute", << 1, 1, 7 >>)
    /\ raised = "ValueError"
    /\ alu.operation_count = 1
    /\ alu.last_result = 0
    /\ alu.zero_flag
    /\ ~alu.overflow_flag

----------------------------------------------------------------------------
(* Assembling a source text, loading it and stepping through it: SpecAsm *)

\* the lines source texts are made of
AsmLines ==
    { Line("", "ADDI", << Id("x1"), Id("x0"), Num(1) >>),
      Line("", "BEQ", << Id("x0"), Id("zero"), Id("L") >>),
      Line("", "BNE", << Id("x1"), Id("x0"), Id("L") >>),
      Line("", "JAL", << Id("ra"), Id("M") >>),
      Line("L", "", << >>),
      Line("M", "NOP", << >>),
      Line("", "HALT", << >>),
      Line("", "", << >>),
      Line("", "MUL", << Id("x1"), Id("x1"), Id("x1") >>) }

AsmSources == UNION { [1..n -> AsmLines] : n \in 1..MaxLines }

\* assemble_file on a file holding one of the texts of sources
AssembleFrom(sources) ==
    /\ call.op = "init"
    /\ \E lines \in sources :
          LET r == assemble_file(lines)
          IN  /\ source' = lines
              /\ labels' = r.labels
              /\ instructions' = r.instructions
              /\ machine_code' = r.machine_code
              /\ emitted' = r.emitted
              /\ ret' = r.machine_code
              /\ call' = Call("assemble_file", << >>)
    /\ raised' = ""
    /\ step_calls' = 0
    /\ UNCHANGED << cpuVars, memVars, errVars >>

Assemble == AssembleFrom(AsmSources)

\* load_program_direct(machine_code) with the assembler's output
LoadAssembled ==
    /\ call.op = "assemble_file"
    /\ machine_code # << >>
    /\ LET r == load_program(imem, program_size, machine_code, 0)
       IN  /\ imem' = r.memory
           /\ program_size' = r.program_size
           /\ ret' = r.ok
    /\ call' = Call("load_program_direct", << machine_code >>)
    /\ raised' = ""
    /\ step_calls' = 0
    /\ UNCHANGED << cpuVars, asmVars, errVars >>

NextAsm == Assemble \/ LoadAssembled \/ Step

SpecAsm == Init /\ [][NextAsm]_vars

\* the assembled program sits in instruction memory from address 0, every
\* parsed instruction at its pass-1 address
ProgramLoaded ==
    /\ machine_code # << >>
    /\ program_size = Len(machine_code)
    /\ \A k \in 1..Len(machine_code) : imem[k - 1] = machine_code[k]
    /\ \A k \in 1..Len(instructions) : emitted[k] = k

\* the target operand of a branch or jump instruction
TargetOf(ins) ==
    IF ins.instruction = "JAL" THEN ins.operands[2] ELSE ins.operands[3]

\* the signed range of the offset field of a branch or jump
InOffsetRange(ins, d) ==
    IF ins.instruction = "JAL" THEN d \in -128..127 ELSE d \in -8..7

\* instruction ins is a branch or jump to a label of the label table
BranchToLabel(ins) ==
    /\ ins.instruction \in {"BEQ", "BNE", "JAL"}
    /\ Len(ins.operands) = (IF ins.instruction = "JAL" THEN 2 ELSE 3)
    /\ in_labels(TargetOf(ins), labels)

\* the branch or jump the PC points at is taken in this state
TakenAt(ins) ==
    LET a == RF_read(registers, register_map[ins.operands[1].name])
        b == RF_read(registers, register_map[ins.operands[2].name])
    IN  CASE ins.instruction = "BEQ" -> a = b
          [] ins.instruction = "BNE" -> a # b
          [] ins.instruction = "JAL" -> TRUE

\* C1: on an assembled program loaded at address 0, a step that executes a
\* taken BEQ/BNE or a JAL whose target was written as label L (L's address
\* minus the instruction's address within the offset field's signed range)
\* leaves the PC at the address the label table assigned to L
C1_BranchReachesLabel ==
    [][(StepExecutes /\ ProgramLoaded /\ pc < Len(instructions)
        /\ BranchToLabel(instructions[pc + 1])
        /\ InOffsetRange(instructions[pc + 1],
                         labels[TargetOf(instructions[pc + 1]).name] - pc)
        /\ TakenAt(instructions[pc + 1]))
       => pc' = labels[TargetOf(instructions[pc + 1]).name]]_vars

\* the offset field of the word emitted for the k-th parsed instruction
OffsetField(k) ==
    IF instructions[k].instruction = "JAL"
    THEN machine_code[emitted[k]] % 256
    ELSE machine_code[emitted[k]] % 16

\* the width of that field, as a modulus
FieldModulus(k) == IF instructions[k].instruction = "JAL" THEN 256 ELSE 16

HoldsInstruction(i) == source[i].instruction # ""
BlankLine(i) == source[i].instruction = "" /\ source[i].label = ""

\* the number of instructions on the lines before line i
InstructionsBefore(i) ==
    Cardinality({ j \in 1..(i - 1) : HoldsInstruction(j) })

\* line i defines a label that no later line defines again
DefinesLabel(i) ==
    /\ source[i].label # ""
    /\ \A j \in (i + 1)..Len(source) : source[j].label # source[i].label

\* the lines from i on that hold an instruction
InstructionFrom(i) == { j \in i..Len(source) : HoldsInstruction(j) }

\* the record pass 1 made of the instruction on line j
ParsedFrom(j) == instructions[InstructionsBefore(j) + 1]

\* C21: pass 1 gives the instructions the consecutive addresses 0, 1, 2,
\* ... in source order, a line without an instruction (blank, comment-only
\* or a label alone) consumes no address, and a label maps to the address
\* of the instruction on its own line or, standing alone, of the next
\* instruction after it (a label defined on several lines holds its last
\* definition)
C21_AddressAssignment ==
    call.op = "assemble_file" =>
        /\ Len(instructions) = Cardinality(InstructionFrom(1))
        /\ \A k \in 1..Len(instructions) :
               /\ instructions[k].address = k - 1
               /\ instructions[k].line_number \in InstructionFrom(1)
               /\ InstructionsBefore(instructions[k].line_number) = k - 1
               /\ instructions[k].instruction =
                      source[instructions[k].line_number].instruction
               /\ instructions[k].operands =
                      source[instructions[k].line_number].operands
        /\ DOMAIN labels =
               { source[i].label : i \in 1..Len(source) } \ {""}
        /\ \A i \in 1..Len(source) :
               DefinesLabel(i) /\ InstructionFrom(i) # {} =>
                   \E j \in InstructionFrom(i) :
                       /\ \A m \in InstructionFrom(i) : j <= m
                       /\ labels[source[i].label] = ParsedFrom(j).address
                       /\ ParsedFrom(j).line_number = j

\* a text with a blank line before an instruction, a label standing alone
\* before an instruction and a label on an instruction's own line, the
\* labelled instruction not the first one
C21_Witness ==
    /\ call.op = "assemble_file"
    /\ \E i, j, k \in 1..Len(source) :
          /\ BlankLine(i) /\ InstructionFrom(i) # {}
          /\ DefinesLabel(j) /\ ~HoldsInstruction(j)
          /\ InstructionFrom(j) # {}
          /\ DefinesLabel(k) /\ HoldsInstruction(k)
          /\ labels[source[j].label] = 1
          /\ labels[source[k].label] = 1
          /\ InstructionsBefore(k) = 1

----------------------------------------------------------------------------
(* Assembling one label-free line and decoding its word: SpecEnc *)

\* register names, immediates and offsets written in the lines
RTRegs == {"x0", "x9", "a7"}
RTImms == {Num(-8), Num(-1), Num(0), Num(7), Num(15), Num(16), Hex(10)}
RTMems == {Mem(None, "x9"), Mem(0, "x0"), Mem(15, "a7"), Mem(16, "x9"),
           Mem(-1, "x0")}
RTBranchOffsets == {Num(-8), Num(-1), Num(0), Num(7), Num(8), Num(15)}
RTJumpOffsets == {Num(-128), Num(-1), Num(0), Num(127), Num(128), Num(255)}

RTLines ==
    { Line("", m, << Id(a), Id(b), Id(c) >>) :
          m \in {"ADD", "XOR"}, a \in RTRegs, b \in RTRegs, c \in RTRegs }
    \cup { Line("", m, << Id(a), Id(b), v >>) :
          m \in {"ADDI", "ORI"}, a \in RTRegs, b \in RTRegs, v \in RTImms }
    \cup { Line("", m, << Id(a), v >>) :
          m \in {"LW", "SW"}, a \in RTRegs, v \in RTMems }
    \cup { Line("", m, << Id(a), Id(b), v >>) :
          m \in {"BEQ", "BNE"}, a \in RTRegs, b \in RTRegs,
          v \in RTBranchOffsets }
    \cup { Line("", "JAL", << Id(a), v >>) : a \in RTRegs, v \in RTJumpOffsets }
    \cup { Line("", "NOP", << >>), Line("", "HALT", << >>),
           Line("", "ADD", << Id("x0"), Id("x9") >>),
           Line("", "ADDI", << Id("x0"), Id("q9"), Num(1) >>) }

RoundTripSources == { << l >> : l \in RTLines }

AssembleLine == AssembleFrom(RoundTripSources)

\* InstructionDecoder.decode on the word the line was encoded to
DecodeWord ==
    /\ call.op = "assemble_file"
    /\ machine_code # << >>
    /\ ret' = decode(machine_code[1])
    /\ decode_history' = decode_appends(decode_history, machine_code[1])
    /\ call' = Call("decode", << machine_code[1] >>)
    /\ raised' = ""
    /\ UNCHANGED << coreVars, memVars, asmVars, step_calls, errVars >>

NextEnc == AssembleLine \/ DecodeWord

SpecEnc == Init /\ [][NextEnc]_vars

\* the register index and the number a token was written as
WrittenReg(tok) == register_map[tok.name]
WrittenNum(tok) == IF tok.v = None THEN 0 ELSE tok.v

\* decoded record d carries the mnemonic and the operand values of the
\* parsed instruction ins
SameAsWritten(ins, d) ==
    /\ d.instruction_name = ins.instruction
    /\ CASE d.type = "R" ->
               /\ d.rd = WrittenReg(ins.operands[1])
               /\ d.rs1 = WrittenReg(ins.operands[2])
               /\ d.rs2 = WrittenReg(ins.operands[3])
         [] d.type = "I" /\ d.instruction_name # "LW" ->
               /\ d.rd = WrittenReg(ins.operands[1])
               /\ d.rs1 = WrittenReg(ins.operands[2])
               /\ d.immediate = WrittenNum(ins.operands[3])
         [] d.type = "I" /\ d.instruction_name = "LW" ->
               /\ d.rd = WrittenReg(ins.operands[1])
               /\ d.rs1 = WrittenReg(Id(ins.operands[2].name))
               /\ d.offset = WrittenNum(ins.operands[2])
         [] d.type = "S" ->
               /\ d.rs2 = WrittenReg(ins.operands[1])
               /\ d.rs1 = WrittenReg(Id(ins.operands[2].name))
               /\ d.offset = WrittenNum(ins.operands[2])
         [] d.type = "B" ->
               /\ d.rs1 = WrittenReg(ins.operands[1])
               /\ d.rs2 = WrittenReg(ins.operands[2])
               /\ d.offset = WrittenNum(ins.operands[3])
         [] d.type = "J" ->
               /\ d.rd = WrittenReg(ins.operands[1])
               /\ d.offset = WrittenNum(ins.operands[2])
         [] OTHER -> d.valid

\* C3: for every label-free line the assembler accepts, decoding the
\* produced word yields the same mnemonic and exactly the operand values
\* written in the source
C3_RoundTrip ==
    call.op = "decode" => SameAsWritten(instructions[1], ret)

----------------------------------------------------------------------------
(* The decoder on every 16-bit word: SpecDec *)

\* the words handed to decode
Words16 == 0..65535

\* InstructionDecoder.decode(word) on a new decoder
Decode ==
    /\ call.op = "init"
    /\ \E word \in Words16 :
          /\ ret' = decode(word)
          /\ decode_history' = decode_appends(decode_history, word)
          /\ call' = Call("decode", << word >>)
    /\ raised' = ""
    /\ UNCHANGED << coreVars, memVars, asmVars, step_calls, errVars >>

NextDec == Decode

SpecDec == Init /\ [][NextDec]_vars

\* bits lo+width-1..lo of word w
Field(w, lo, width) == (w \div 2^lo) % 2^width

\* v is the width-bit field f read as a two's-complement number
SignExtended(v, f, width) ==
    /\ v \in -(2^(width - 1))..(2^(width - 1) - 1)
    /\ (v - f) % 2^width = 0

\* C13: for every 16-bit word, decode extracts the fields of Table A
\* (R: rd, rs1, rs2; I: rd, rs1, imm; S: rs2, rs1, offset; B: rs1, rs2,
\* offset; J: rd, 8-bit offset) and applies the sign policy: a B-type
\* offset is the low 4 bits sign-extended (-8..7), a J-type offset is the
\* low 8 bits sign-extended (-128..127), I-type immediates and LW/SW
\* offsets are the low 4 bits unsigned (0..15)
C13_FieldsAndSigns ==
    call.op = "decode" =>
        LET w == call.args[1]
            d == ret
            hi == Field(w, 8, 4)
            mid == Field(w, 4, 4)
            lo == Field(w, 0, 4)
        IN  /\ d.opcode = Field(w, 12, 4)
            /\ d.type = "R" => d.rd = hi /\ d.rs1 = mid /\ d.rs2 = lo
            /\ d.type = "I" =>
                   /\ d.rd = hi /\ d.rs1 = mid
                   /\ d.immediate = lo /\ d.immediate \in 0..15
                   /\ d.instruction_name = "LW" => d.offset = lo
            /\ d.type = "S" =>
                   /\ d.rs2 = hi /\ d.rs1 = mid
                   /\ d.offset = lo /\ d.offset \in 0..15
            /\ d.type = "B" =>
                   /\ d.rs1 = hi /\ d.rs2 = mid
                   /\ SignExtended(d.offset, lo, 4)
            /\ d.type = "J" =>
                   /\ d.rd = hi
                   /\ SignExtended(d.offset, Field(w, 0, 8), 8)

\* BEQ x1, x2 with the field 0xF decodes to the offset -1
C13_Witness ==
    /\ call = Call("decode", << 41263 >>)
    /\ ret.type = "B" /\ ret.rs1 = 1 /\ ret.rs2 = 2
    /\ ret.offset = -1

\* C14: decode raises for no 16-bit word; it returns a record marked
\* not valid, carrying the raw word, exactly when the top 4 bits are an
\* opcode with no entry in the ISA table, and a valid record otherwise
C14_DecodeTotal ==
    call.op = "decode" =>
        LET w == call.args[1]
        IN  /\ raised = ""
            /\ ret.valid <=> Field(w, 12, 4) \in DOMAIN isa_table
            /\ ~ret.valid => ret.raw_instruction = w /\ ret.type = "Invalid"

\* the word 0xD123 has the opcode 0xD, which has no entry
C14_Witness ==
    /\ call = Call("decode", << 53539 >>)
    /\ ~ret.valid
    /\ ret.raw_instruction = 53539

----------------------------------------------------------------------------
(* Store then load on the processor: SpecMem *)

\* the 16-bit word with the opcode and the three 4-bit fields of Table A
Word(opcode, f1, f2, f3) == opcode * 4096 + f1 * 256 + f2 * 16 + f3

\* the programs "addi x1, x0, v / sw x1, off(rs1) / lw rd, off(rs1) / halt"
\* (Scenario B of the comprehensive test has v = 9, off = 0, rs1 = x0,
\* rd = x2)
MemValues == {1, 9}
MemOffsets == {0, 2, 5, 15}
MemBases == {0, 1}
MemDests == {0, 1, 2}
MemPrograms ==
    { << Word(5, 1, 0, v), Word(9, 1, rs1, off), Word(8, rd, rs1, off),
         Word(15, 0, 0, 0) >> :
        v \in MemValues, off \in MemOffsets, rs1 \in MemBases,
        rd \in MemDests }

\* load_program_direct(words) of a store/load program on the constructed
\* processor
LoadMemProgram ==
    /\ program_size = 0 /\ cycle_count = 0 /\ ~halted
    /\ \E words \in MemPrograms :
          \E r \in {load_program(imem, program_size, words, 0)} :
              /\ imem' = r.memory
              /\ program_size' = r.program_size
              /\ call' = Call("load_program_direct", << words >>)
              /\ ret' = r.ok
    /\ step_calls' = 0
    /\ raised' = ""
    /\ UNCHANGED << cpuVars, asmVars, errVars >>

NextMem == LoadMemProgram \/ Step

SpecMem == Init /\ [][NextMem]_vars

\* the last instruction the processor executed
LastExecuted == decode(execution_history[Len(execution_history)].instruction)

\* this transition executes LW rd, off(rs1) and the instruction executed
\* before it was SW rs2, off(rs1), with the same off and rs1
LoadAfterStore ==
    /\ StepExecutes
    /\ execution_history # << >>
    /\ LastExecuted.instruction_name = "SW"
    /\ decode(Fetched).instruction_name = "LW"
    /\ decode(Fetched).rs1 = LastExecuted.rs1
    /\ decode(Fetched).offset = LastExecuted.offset
    /\ decode(Fetched).rd # 0

\* C15: for every data memory size, every value of rs1 and every offset
\* 0..15, SW rs2, off(rs1) followed by LW rd, off(rs1) leaves rd (a
\* register other than x0) equal to the value rs2 held
C15_StoreLoadRoundTrip ==
    [][LoadAfterStore =>
         registers'[decode(Fetched).rd] = registers[LastExecuted.rs2]]_vars

\* the address of the last executed SW is inside the data memory
StoredInRange ==
    _address_to_index(data_address(CPU, LastExecuted)) # None

\* the round trip when the address computed from rs1 and off is one the
\* data memory holds
StoreLoadInRange ==
    [][(LoadAfterStore /\ StoredInRange) =>
         registers'[decode(Fetched).rd] = registers[LastExecuted.rs2]]_vars

----------------------------------------------------------------------------
(* The data memory on its own, plain and with an error handler: SpecDM *)

\* logical addresses around both ends of the memory, and values to store
DMAddresses ==
    {-1, 0, base_address - 1, base_address, base_address + DMemSize - 1,
     base_address + DMemSize, base_address + 1024}
DMValues == {0, 7, 65541}

\* DataMemory.read_word(address)
DMRead ==
    /\ \E address \in DMAddresses :
          /\ ret' = read_word(dmem, address)
          /\ call' = Call("read_word", << address >>)
    /\ raised' = ""
    /\ UNCHANGED << cpuVars, memVars, asmVars, step_calls, errVars >>

\* DataMemory.write_word(address, value)
DMWrite ==
    /\ \E address \in DMAddresses, value \in DMValues :
          \E r \in {write_word(dmem, address, value)} :
              /\ dmem' = r.memory
              /\ ret' = r.ok
              /\ call' = Call("write_word", << address, value >>)
    /\ raised' = ""
    /\ UNCHANGED << pc, halted, cycle_count, instruction_count, registers,
                    alu, pc_updated, execution_history, decode_history,
                    memVars, asmVars, step_calls, errVars >>

\* EnhancedDataMemory.read_word(address) with a handler in either mode
EDMRead ==
    /\ \E address \in DMAddresses, strict \in BOOLEAN :
          \E r \in {Enhanced_read_word(dmem, address, strict)} :
              /\ ret' = r.value
              /\ raised' = IF r.raised THEN "MemoryException" ELSE ""
              /\ call' = Call("enhanced_read_word",
                              << address, strict >>)
    /\ UNCHANGED << cpuVars, memVars, asmVars, step_calls, errVars >>

\* EnhancedDataMemory.write_word(address, value) with a handler in either
\* mode
EDMWrite ==
    /\ \E address \in DMAddresses, value \in DMValues,
          strict \in BOOLEAN :
          \E r \in {Enhanced_write_word(dmem, address, value, strict)} :
              /\ dmem' = r.memory
              /\ ret' = r.value
              /\ raised' = IF r.raised THEN "MemoryException" ELSE ""
              /\ call' = Call("enhanced_write_word",
                              << address, value, strict >>)
    /\ UNCHANGED << pc, halted, cycle_count, instruction_count, registers,
                    alu, pc_updated, execution_history, decode_history,
                    memVars, asmVars, step_calls, errVars >>

NextDM == DMRead \/ DMWrite \/ EDMRead \/ EDMWrite

SpecDM == Init /\ [][NextDM]_vars

\* the logical address a is below base or at/above base + size
OutOfRange(a) == a < base_address \/ a >= base_address + DMemSize

\* C16: a data memory access at a logical address below base or at/above
\* base + size changes no word of the memory; without a strict handler
\* read_word returns 0 and write_word returns false, and with a
\* strict-mode handler the access raises a memory fault
C16_OutOfRangeAccess ==
    [][(call'.op \in {"read_word", "write_word", "enhanced_read_word",
                      "enhanced_write_word"}
        /\ OutOfRange(call'.args[1])) =>
          /\ dmem' = dmem
          /\ call'.op = "read_word" => ret' = 0 /\ raised' = ""
          /\ call'.op = "write_word" => ret' = FALSE /\ raised' = ""
          /\ call'.op = "enhanced_read_word" =>
                 IF call'.args[2] THEN raised' = "MemoryException"
                 ELSE ret' = 0 /\ raised' = ""
          /\ call'.op = "enhanced_write_word" =>
                 IF call'.args[3] THEN raised' = "MemoryException"
                 ELSE ret' = FALSE /\ raised' = ""]_vars

\* a write one word past the end was refused and the last word of the
\* memory still holds the 7 stored before
C16_Witness ==
    /\ call = Call("write_word", << base_address + DMemSize, 65541 >>)
    /\ ret = FALSE
    /\ dmem[DMemSize - 1] = 7
    /\ dmem[0] = 7

----------------------------------------------------------------------------
(* The instruction memory on its own: SpecIM *)

\* word lists of every length up to one more than the memory holds, with
\* words above 16 bits, and start addresses around both ends
IMWordLists ==
    { [i \in 1..n |-> k + i] : n \in 0..(IMemSize + 1), k \in {0, 65536} }
IMStarts == {-1, 0, 1, IMemSize - 1, IMemSize}

\* InstructionMemory.load_program(words, start_address)
IMLoad ==
    /\ \E words \in IMWordLists, start_address \in IMStarts :
          \E r \in {load_program(imem, program_size, words, start_address)} :
              /\ imem' = r.memory
              /\ program_size' = r.program_size
              /\ ret' = r.ok
              /\ call' = Call("load_program", << words, start_address >>)
    /\ raised' = ""
    /\ UNCHANGED << cpuVars, asmVars, step_calls, errVars >>

NextIM == IMLoad

SpecIM == Init /\ [][NextIM]_vars

\* C17: load_program(words, start) returns false exactly when start is
\* outside 0..size-1 or start + len(words) > size, and then leaves the
\* memory and the recorded program length unchanged; otherwise it returns
\* true, zeroes the whole memory, stores words[i] mod 2^16 at start + i
\* and records len(words) as the program length
C17_LoadProgram ==
    [][call'.op = "load_program" =>
         LET words == call'.args[1]
             start == call'.args[2]
             refused == \/ start \notin 0..(IMemSize - 1)
                        \/ start + Len(words) > IMemSize
         IN  /\ ret' = ~refused
             /\ refused => imem' = imem /\ program_size' = program_size
             /\ ~refused =>
                   /\ program_size' = Len(words)
                   /\ \A a \in 0..(IMemSize - 1) :
                         imem'[a] =
                            IF a - start \in 0..(Len(words) - 1)
                            THEN words[a - start + 1] % 65536
                            ELSE 0]_vars

\* a one-word program loaded at address 1 over a longer one: the word is
\* stored masked and the words around it are zero
C17_Witness ==
    /\ call = Call("load_program", << << 65537 >>, 1 >>)
    /\ ret = TRUE
    /\ program_size = 1
    /\ imem[0] = 0 /\ imem[1] = 1 /\ imem[2] = 0

\* a program one word longer than the memory was refused and the program
\* loaded before it is still there
C17_RefusedWitness ==
    /\ call.op = "load_program"
    /\ Len(call.args[1]) = IMemSize + 1
    /\ ret = FALSE
    /\ program_size = 2
    /\ imem[0] = 1 /\ imem[1] = 2

----------------------------------------------------------------------------
(* Runs from reset, one after the other on one processor: SpecDet *)

\* the programs run: three words out of
\*   0x5101 addi x1, x0, 1    0x9101 sw x1, 1(x0)    0xB10F bne x1, x0, -1
\*   0xC1FE jal x1, -2        0xF000 halt
DetWords == {20737, 37121, 45327, 49662, 61440}
DetPrograms == [1..3 -> DetWords]

\* reset() followed by load_program_direct(words)
ResetLoad ==
    /\ Len(decode_history) < MaxReloadDecodes
    /\ \E words \in DetPrograms :
          \E s \in {reset(CPU)},
             r \in {load_program(imem, program_size, words, 0)} :
              /\ SetCPU(s)
              /\ imem' = r.memory
              /\ program_size' = r.program_size
              /\ ret' = r.ok
              /\ call' = Call("reset_load", << words >>)
    /\ raised' = ""
    /\ step_calls' = 0
    /\ UNCHANGED << asmVars, errVars >>

NextDet == ResetLoad \/ Step

SpecDet == Init /\ [][NextDet]_vars

\* the processor state after k calls of step() from the state s
RECURSIVE StepN(_, _)
StepN(s, k) ==
    IF k = 0 THEN s
    ELSE CHOOSE n \in { StepN(r.s, k - 1) : r \in {step(s)} } : TRUE

\* the processor state s without the decoder's diagnostic history
Processor(s) == [s EXCEPT !.decode_history = << >>]

\* C18: after reset() and load_program(words), whatever ran on the
\* processor before, the instruction memory holds words and nothing else
\* and the processor state after k step() calls, for every k, with its
\* PC, halted flag, counters, registers, data memory, ALU flags and
\* execution trace, is the one a newly constructed processor has after k
\* step() calls on the same program: two such runs in a row agree after
\* every step
C18_SameRunFromReset ==
    call.op = "reset_load" =>
        /\ ret = TRUE
        /\ program_size = Len(call.args[1])
        /\ imem = load_program(IM_init, 0, call.args[1], 0).memory
        /\ \A k \in 0..MaxCycles :
               Processor(StepN(CPU, k)) = Processor(StepN(CPU_init, k))

\* reset and load of "addi / sw / halt": the registers and the data
\* memory no longer hold what that program leaves in them after a run
C18_Witness ==
    /\ call = Call("reset_load", << << 20737, 37121, 61440 >> >>)
    /\ registers[1] = 0
    /\ dmem[1] = 0
    /\ StepN(CPU, 3).registers[1] = 1
    /\ StepN(CPU, 3).dmem[1] = 1
    /\ StepN(CPU, 3).halted

----------------------------------------------------------------------------
(* reset() in the middle and at the end of a run: SpecReset *)

\* reset() on a processor that has run part or all of a program
ResetProcessor ==
    /\ Len(decode_history) < MaxReloadDecodes
    /\ \E s \in {reset(CPU)} : SetCPU(s)
    /\ call' = Call("reset", << >>)
    /\ ret' = FALSE
    /\ raised' = ""
    /\ step_calls' = 0
    /\ UNCHANGED << memVars, asmVars, errVars >>

NextReset == ResetLoad \/ Step \/ ResetProcessor

SpecReset == Init /\ [][NextReset]_vars

\* C32: reset() sets the PC, the cycle counter and the instruction counter
\* to 0 and the halted flag to false, zeroes every register and every data
\* memory word, clears the ALU flags and the execution history, and leaves
\* the instruction memory and the recorded program length as they were
C32_ResetEffect ==
    [][call'.op = "reset" =>
          /\ pc' = 0
          /\ ~halted'
          /\ cycle_count' = 0
          /\ instruction_count' = 0
          /\ \A i \in 0..15 : RF_read(registers', i) = 0
          /\ \A a \in DOMAIN dmem' : dmem'[a] = 0
          /\ DOMAIN dmem' = DOMAIN dmem
          /\ ~alu'.zero_flag /\ ~alu'.overflow_flag /\ ~alu'.negative_flag
          /\ execution_history' = << >>
          /\ imem' = imem
          /\ program_size' = program_size
       ]_vars

\* reset() after "addi x1, x0, 1 / sw x1, 1(x0)" had executed: the decoder
\* still holds their two records, the register and the memory word they
\* wrote are 0 again and the program is still loaded
C32_Witness ==
    /\ call.op = "reset"
    /\ Len(decode_history) = 2
    /\ decode_history[1].raw_instruction = 20737
    /\ decode_history[2].raw_instruction = 37121
    /\ imem[0] = 20737 /\ imem[1] = 37121
    /\ program_size = 3
    /\ registers[1] = 0
    /\ dmem[1] = 0
    /\ pc = 0

\* reset() on a processor halted by HALT
C32_WitnessHalted ==
    /\ call.op = "reset"
    /\ ~halted
    /\ Len(decode_history) = 2
    /\ decode_history[2].raw_instruction = 61440
    /\ imem[1] = 61440

----------------------------------------------------------------------------
(* The counted loop of the control-flow lab, assembled and run: SpecLoop *)

\* the source text of the lab, with the counter starting at n
ControlFlowLab(n) ==
    << Line("main", "", << >>),
       Line("", "ADDI", << Id("x1"), Id("x0"), Num(n) >>),
       Line("", "ADDI", << Id("x2"), Id("x0"), Num(0) >>),
       Line("", "", << >>),
       Line("loop", "", << >>),
       Line("", "BEQ", << Id("x1"), Id("x0"), Id("done") >>),
       Line("", "ADD", << Id("x2"), Id("x2"), Id("x1") >>),
       Line("", "ADDI", << Id("x1"), Id("x1"), Num(-1) >>),
       Line("", "BNE", << Id("x1"), Id("x0"), Id("loop") >>),
       Line("", "", << >>),
       Line("done", "", << >>),
       Line("", "SW", << Id("x2"), Mem(5, "x0") >>),
       Line("", "HALT", << >>) >>

\* the lab has the counter 5
LabCounts == 0..7
LabSources == { ControlFlowLab(n) : n \in LabCounts }

\* the lab runs with max_cycles = 50
LabBudget == 50

AssembleLab == AssembleFrom(LabSources)

\* run(max_cycles) on the loaded program, from the state reset() leaves
RunLab ==
    /\ program_size > 0 /\ cycle_count = 0 /\ pc = 0 /\ ~halted
    /\ \E max_cycles \in 0..LabBudget :
          \E r \in {run(CPU, max_cycles)} :
              /\ SetCPU(r.s)
              /\ ret' = r.ret
              /\ step_calls' = r.calls
              /\ call' = Call("run", << max_cycles >>)
              /\ raised' = IF r.raised THEN "ValueError" ELSE ""
    /\ UNCHANGED << memVars, asmVars, errVars >>

NextLoop == AssembleLab \/ LoadAssembled \/ RunLab \/ Reset

SpecLoop == Init /\ [][NextLoop]_vars

\* C19: the counted loop of the control-flow lab (counter 5), assembled and
\* run from reset with run(50), terminates: the processor is halted within
\* 50 cycles and run returns true
C19_LabLoopTerminates ==
    (call = Call("run", << LabBudget >>) /\ source = ControlFlowLab(5)) =>
        /\ halted
        /\ ret = TRUE
        /\ cycle_count <= LabBudget

\* the number of records the history holds after n valid instructions
HeldAfter(n) == IF n < 20 THEN n ELSE 20

\* C29: the execution history never holds more than 20 records; it holds
\* the validly executed instructions since the last reset if they are at
\* most 20 and otherwise the 20 most recent of them (each new record
\* having evicted the oldest), in the order of their execution
C29_HistoryKeepsLatest ==
    LET held == Len(execution_history)
        decoded == Len(decode_history)
    IN  /\ held <= 20
        /\ held = HeldAfter(instruction_count)
        /\ \A i \in 1..held :
              /\ execution_history[i].instruction =
                     decode_history[decoded - held + i].raw_instruction
              /\ execution_history[i].type =
                     decode_history[decoded - held + i].type
        /\ \A i \in 1..(held - 1) :
              execution_history[i].cycle < execution_history[i + 1].cycle

\* the lab with the counter 5 ran for 50 instructions: the history holds
\* the last 20 of them, those of cycles 30 to 49, ending with the ADDI
\* of the loop
C29_Witness ==
    /\ call = Call("run", << LabBudget >>)
    /\ source = ControlFlowLab(5)
    /\ instruction_count = 50
    /\ Len(decode_history) = 50
    /\ Len(execution_history) = 20
    /\ execution_history[1].cycle = 30
    /\ execution_history[1].instruction = 45324
    /\ execution_history[20].cycle = 49
    /\ execution_history[20].instruction = 20767

\* the decoded-instruction records the decoder and the processor hold
RecordsHeld == Len(decode_history) + Len(execution_history)

\* C30: a decoded record is kept after its cycle only in the bounded
\* execution history, so the decoder and the processor together never
\* hold more records than the 20 of that history and the one of the
\* cycle under way
C30_RetentionBounded == RecordsHeld <= 20 + 1

----------------------------------------------------------------------------
(* Stores to two addresses 1024 words apart: SpecAlias *)

\* the program
\*   addi x1, x0, start / L: add x2, x1, x0 / add x1, x1, x1 /
\*   bne x1, x0, L / sw x2, 0(x0) / sw x0, off(x2) / lw x3, 0(x0) / halt
\* which doubles x1 until it wraps to 0 and so leaves 0x8000 in x2
AliasProgram(start, off) ==
    << Word(5, 1, 0, start), Word(0, 2, 1, 0), Word(0, 1, 1, 1),
       Word(11, 1, 0, 14), Word(9, 2, 0, 0), Word(9, 0, 2, off),
       Word(8, 3, 0, 0), Word(15, 0, 0, 0) >>

AliasPrograms == { AliasProgram(start, off) : start \in {2, 4, 8}, off \in {0, 1} }

\* load_program_direct(words) of one of these programs on the constructed
\* processor
LoadAliasProgram ==
    /\ call.op = "init"
    /\ \E words \in AliasPrograms :
          \E r \in {load_program(imem, program_size, words, 0)} :
              /\ imem' = r.memory
              /\ program_size' = r.program_size
              /\ call' = Call("load_program_direct", << words >>)
              /\ ret' = r.ok
    /\ step_calls' = 0
    /\ raised' = ""
    /\ UNCHANGED << cpuVars, asmVars, errVars >>

NextAlias == LoadAliasProgram \/ RunLab

SpecAlias == Init /\ [][NextAlias]_vars

\* the k-th record of the execution history, decoded
Executed(k) == decode(execution_history[k].instruction)

\* the effective address (rs1 + offset) mod 2^16 of the k-th record, a
\* load or a store, with the registers as they are now
EffectiveAddress(k) ==
    (RF_read(registers, Executed(k).rs1) + Executed(k).offset) % 65536

\* the records k, k + 1, k + 2 are SW to A, SW to B and LW from A, with A
\* and B different effective addresses, and nothing has written a
\* register they read since
StoreStoreLoad(k) ==
    /\ k + 2 <= Len(execution_history)
    /\ Executed(k).instruction_name = "SW"
    /\ Executed(k + 1).instruction_name = "SW"
    /\ Executed(k + 2).instruction_name = "LW"
    /\ EffectiveAddress(k) = EffectiveAddress(k + 2)
    /\ EffectiveAddress(k) # EffectiveAddress(k + 1)
    /\ Executed(k + 2).rd \notin
          {Executed(k).rs1, Executed(k).rs2, Executed(k + 1).rs1, 0}
    /\ \A j \in (k + 3)..Len(execution_history) :
          Executed(j).instruction_name = "HALT"

\* C35: after SW to the effective address A, SW to a different effective
\* address B and LW from A, the loaded register holds the value stored
\* to A
C35_NoAliasing ==
    \A k \in 1..Len(execution_history) :
        StoreStoreLoad(k) =>
            RF_read(registers, Executed(k + 2).rd) =
                RF_read(registers, Executed(k).rs2)

\* the same when A and B are different modulo 1024
NoAliasingModulo1024 ==
    \A k \in 1..Len(execution_history) :
        (/\ StoreStoreLoad(k)
         /\ EffectiveAddress(k) % 1024 # EffectiveAddress(k + 1) % 1024) =>
            RF_read(registers, Executed(k + 2).rd) =
                RF_read(registers, Executed(k).rs2)

\* the store to 0x8000 replaced the 0x8000 stored to the address 0, and
\* the load from the address 0 returned the 0 of the second store
AliasedStore ==
    /\ halted
    /\ imem[5] = Word(9, 0, 2, 0)
    /\ registers[2] = 32768
    /\ registers[3] = 0
    /\ dmem[0] = 0

\* with the second store to 0x8001 the load returned the 0x8000 stored
SeparateStore ==
    /\ halted
    /\ imem[5] = Word(9, 0, 2, 1)
    /\ registers[2] = 32768
    /\ registers[3] = 32768
    /\ dmem[0] = 32768

----------------------------------------------------------------------------
(* An instruction memory of 65536 words, filled to its last address: *)
(* SpecWide                                                          *)

\* InstructionMemory.__init__ of RiscVProcessor(65536)
IM_init_wide == [a \in 0..65535 |-> 0]

\* the state after construction of RiscVProcessor(65536)
InitWide ==
    /\ pc = CPU_init.pc
    /\ halted = CPU_init.halted
    /\ cycle_count = CPU_init.cycle_count
    /\ instruction_count = CPU_init.instruction_count
    /\ registers = CPU_init.registers
    /\ dmem = CPU_init.dmem
    /\ alu = CPU_init.alu
    /\ pc_updated = CPU_init.pc_updated
    /\ execution_history = CPU_init.execution_history
    /\ decode_history = CPU_init.decode_history
    /\ strict_mode = ProcessorErrorHandler(FALSE).strict_mode
    /\ error_count = ProcessorErrorHandler(FALSE).error_count
    /\ error_log = ProcessorErrorHandler(FALSE).error_log
    /\ exception = NoException
    /\ imem = IM_init_wide
    /\ program_size = 0
    /\ labels = << >>
    /\ instructions = << >>
    /\ machine_code = << >>
    /\ emitted = << >>
    /\ source = << >>
    /\ call = Call("init", << >>)
    /\ ret = FALSE
    /\ raised = ""
    /\ step_calls = 0

\* the list of 65536 words with first at the address 0, last at the
\* address 0xFFFF and 0 in between
WideProgram(first, last) ==
    << first >> \o [i \in 1..65534 |-> 0] \o << last >>

\* load_program_direct of such a list; the first word is "jal x1, -1"
\* (0xC1FF), "jal x0, -1" (0xC0FF) or has no ISA entry (0xD000), the last
\* one has any opcode (the call is recorded by these two words)
LoadWide ==
    /\ call.op = "init"
    /\ \E first \in {49663, 49407, 53248},
          last \in { Word(o, 1, 0, 1) : o \in 0..15 } :
          \E words \in {WideProgram(first, last)} :
              \E r \in {load_program(imem, program_size, words, 0)} :
                  /\ imem' = r.memory
                  /\ program_size' = r.program_size
                  /\ call' = Call("load_program_direct", << first, last >>)
                  /\ ret' = r.ok
    /\ step_calls' = 0
    /\ raised' = ""
    /\ UNCHANGED << cpuVars, asmVars, errVars >>

NextWide == LoadWide \/ Step

SpecWide == InitWide /\ [][NextWide]_vars

\* C38: in every state reached from construction by loading a program
\* and calling step(), the PC is within 0..0xFFFF, every register holds a
\* value within 0..0xFFFF, register 0 holds 0, and the instruction counter
\* does not exceed the cycle counter
C38_WellFormed ==
    /\ pc \in 0..65535
    /\ \A i \in 0..15 : registers[i] \in 0..65535
    /\ registers[0] = 0
    /\ instruction_count <= cycle_count

\* the same without the upper limit of the PC
WellFormedButPC ==
    /\ pc >= 0
    /\ \A i \in 0..15 : registers[i] \in 0..65535
    /\ registers[0] = 0
    /\ instruction_count <= cycle_count

\* "jal x1, -1" at the address 0 jumped to 0xFFFF, and the word there,
\* which has no ISA entry, was skipped: the PC is 0x10000
PCBeyond16Bits ==
    /\ call.op = "step"
    /\ imem[0] = 49663
    /\ ~decode(imem[65535]).valid
    /\ program_size = 65536
    /\ cycle_count = 2
    /\ instruction_count = 1
    /\ pc = 65536
    /\ ~halted

----------------------------------------------------------------------------
(* Source texts with lines that cannot be encoded: SpecBad *)

\* three lines that encode (the third relative to a label) and one line
\* for each way of being wrong
BadLines ==
    { Line("", "ADDI", << Id("x1"), Id("x0"), Num(1) >>),
      Line("L", "HALT", << >>),
      Line("", "BEQ", << Id("x0"), Id("x0"), Id("L") >>),
      Line("", "MUL", << Id("x1"), Id("x1"), Id("x1") >>),
      Line("", "ADD", << Id("x1"), Id("x2") >>),
      Line("", "ADDI", << Id("x1"), Id("x99"), Num(1) >>),
      Line("", "ADDI", << Id("x1"), Id("x0"), Num(16) >>),
      Line("", "BEQ", << Id("x0"), Id("x0"), Id("nowhere") >>),
      Line("", "NOP", << Id("x1") >>) }

BadSources == UNION { [1..n -> BadLines] : n \in 1..MaxLines }

AssembleBad == AssembleFrom(BadSources)

NextBad == AssembleBad

SpecBad == Init /\ [][NextBad]_vars

\* the number of operands the format of a mnemonic has
OperandCount(instruction) ==
    CASE get_instruction_type(instruction) \in {"R", "B"} -> 3
      [] get_instruction_type(instruction) = "I" ->
             IF instruction = "LW" THEN 2 ELSE 3
      [] get_instruction_type(instruction) \in {"S", "J"} -> 2
      [] get_instruction_type(instruction) = "Special" -> 0

UnknownMnemonic(l) == l.instruction \notin DOMAIN opcodes

WrongOperandCount(l) ==
    /\ ~UnknownMnemonic(l)
    /\ Len(l.operands) # OperandCount(l.instruction)

\* the positions of the register operands of a line
RegisterPositions(l) ==
    CASE get_instruction_type(l.instruction) = "R" -> {1, 2, 3}
      [] get_instruction_type(l.instruction) = "I" ->
             IF l.instruction = "LW" THEN {1} ELSE {1, 2}
      [] get_instruction_type(l.instruction) = "B" -> {1, 2}
      [] get_instruction_type(l.instruction) \in {"S", "J"} -> {1}
      [] OTHER -> {}

\* a line of the right shape with a register, immediate or label operand
\* that names no register, is no number in -8..15, or is neither a label
\* nor a number
BadOperand(l, lbls) ==
    /\ ~UnknownMnemonic(l)
    /\ ~WrongOperandCount(l)
    /\ \/ \E i \in RegisterPositions(l) :
              ~(l.operands[i].k = "id"
                /\ l.operands[i].name \in DOMAIN register_map)
       \/ /\ l.instruction \in {"ADDI", "ANDI", "ORI"}
          /\ ~(l.operands[3].k \in {"num", "hex"}
                /\ l.operands[3].v \in -8..15)
       \/ /\ l.instruction \in {"BEQ", "BNE", "JAL"}
          /\ l.operands[Len(l.operands)].k # "num"
          /\ ~in_labels(l.operands[Len(l.operands)], lbls)

BadLine(l, lbls) ==
    UnknownMnemonic(l) \/ WrongOperandCount(l) \/ BadOperand(l, lbls)

\* a line whose word holds an offset computed from a label
LabelRelative(l, lbls) ==
    /\ l.instruction \in {"BEQ", "BNE", "JAL"}
    /\ l.operands # << >>
    /\ in_labels(l.operands[Len(l.operands)], lbls)

\* the source with every bad line taken out (a label on it stays)
WithoutBadLines(lines, lbls) ==
    [i \in 1..Len(lines) |->
        IF lines[i].instruction # "" /\ BadLine(lines[i], lbls)
        THEN Line(lines[i].label, "", << >>)
        ELSE lines[i]]

\* the words of the lines that are not bad are the words these lines have
\* in the source without the bad lines, label-relative lines apart
OtherLinesUnchanged ==
    LET good == SelectSeq(instructions, LAMBDA l : ~BadLine(l, labels))
        alone == assemble_file(WithoutBadLines(source, labels))
    IN  /\ Len(alone.machine_code) = Len(good)
        /\ Len(machine_code) = Len(good)
        /\ \A j \in 1..Len(good) :
              \/ LabelRelative(good[j], labels)
              \/ machine_code[j] = alone.machine_code[j]

\* C20: a source line with an unknown mnemonic, a wrong operand count or
\* a bad register, immediate or label operand produces no machine word
\* and does not stop the assembly: every other line is encoded, to the
\* word it has without the bad lines present, label-relative offsets apart
C20_PerLineFailure ==
    call.op = "assemble_file" =>
        /\ \A k \in 1..Len(instructions) :
              BadLine(instructions[k], labels) <=> emitted[k] = 0
        /\ OtherLinesUnchanged

\* a wrong operand count on NOP or HALT, which take no operand
SpecialWithOperands(l) ==
    /\ l.instruction \in {"NOP", "HALT"}
    /\ l.operands # << >>

\* the same for sources in which NOP and HALT have no operand
PerLineFailureButSpecial ==
    (/\ call.op = "assemble_file"
     /\ \A k \in 1..Len(instructions) :
           ~SpecialWithOperands(instructions[k])) =>
        /\ \A k \in 1..Len(instructions) :
              BadLine(instructions[k], labels) <=> emitted[k] = 0
        /\ OtherLinesUnchanged

\* C34: in the assembler's output, the word of every instruction that was
\* encoded sits at the index equal to the address pass 1 gave that
\* instruction, the address label resolution uses, also when other lines
\* of the source fail to encode
C34_WordAtAddress ==
    call.op = "assemble_file" =>
        \A k \in 1..Len(instructions) :
            emitted[k] # 0 => emitted[k] - 1 = instructions[k].address

\* the same for the sources of which every line encodes
WordAtAddressIfAllEncode ==
    (/\ call.op = "assemble_file"
     /\ \A k \in 1..Len(instructions) : emitted[k] # 0) =>
        \A k \in 1..Len(instructions) :
            /\ emitted[k] - 1 = instructions[k].address
            /\ machine_code[instructions[k].address + 1] =
                   encode_instruction(instructions[k], labels).v

\* "mul x1, x1, x1 / L: halt / beq x0, x0, L": the label L has the
\* address 1, and the output holds HALT at index 0 and the branch at 1
ShiftedAfterFailure ==
    /\ call.op = "assemble_file"
    /\ Len(source) = 3
    /\ source[1].instruction = "MUL"
    /\ source[2].instruction = "HALT" /\ source[2].label = "L"
    /\ source[3].instruction = "BEQ"
    /\ labels["L"] = 1
    /\ emitted = << 0, 1, 2 >>
    /\ machine_code[1] = 61440
    /\ Len(machine_code) = 2


----------------------------------------------------------------------------
(* Stepping over any 16-bit word: SpecGraceful *)

\* what the programs start with before the word under test:
\* "addi x1, x0, 15" (0x510F), so that a register holds a value
GracePrefixes == { << 20751 >> }

\* load_program_direct(prefix + [word]) on the constructed processor
LoadWord ==
    /\ call.op = "init"
    /\ \E prefix \in GracePrefixes, word \in Words16 :
          \E words \in {prefix \o << word >>} :
              \E r \in {load_program(imem, program_size, words, 0)} :
                  /\ imem' = r.memory
                  /\ program_size' = r.program_size
                  /\ call' = Call("load_program_direct", << words >>)
                  /\ ret' = r.ok
    /\ step_calls' = 0
    /\ raised' = ""
    /\ UNCHANGED << cpuVars, asmVars, errVars >>

\* run(max_cycles) on the program just loaded
RunLoaded == cycle_count = 0 /\ Run

\* the source text of scenario A
ScenarioA ==
    << Line("", "ADDI", << Id("x1"), Id("x0"), Num(10) >>),
       Line("", "ADDI", << Id("x2"), Id("x0"), Num(5) >>),
       Line("", "ADD", << Id("x3"), Id("x1"), Id("x2") >>),
       Line("", "HALT", << >>) >>

AssembleScenarioA == AssembleFrom({ScenarioA})

NextGraceful ==
    LoadWord \/ AssembleScenarioA \/ LoadAssembled \/ Step \/ RunLoaded

SpecGraceful == Init /\ [][NextGraceful]_vars

\* C22: whatever 16-bit word instruction memory holds, step() raises
\* nothing, and run(max_cycles) raises nothing and returns with the
\* processor halted or with the cycle budget used up (which is when it
\* returns false)
C22_GracefulNeverFails ==
    call.op \in {"step", "run"} =>
        /\ raised = ""
        /\ call.op = "run" => (halted \/ ret = FALSE)

\* run() executed an instruction, went over a word with no ISA entry and
\* stopped at the end of the program within its budget
C22_Witness ==
    /\ call.op = "run" /\ raised = ""
    /\ ~decode(imem[1]).valid
    /\ cycle_count = 2 /\ instruction_count = 1
    /\ step_calls = 3
    /\ halted /\ ret = TRUE


\* the width-bit field f read as a two's-complement number
Signed(f, width) == IF f >= 2^(width - 1) THEN f - 2^width ELSE f

\* the last step() call executed the word at address 1 of the program
ExecutedWordUnderTest ==
    /\ call.op = "step"
    /\ Len(execution_history) = 2
    /\ execution_history[2].instruction = imem[1]
    /\ execution_history[2].cycle = 1

C26_JumpSemantics ==
    [][(StepExecutes /\ decode(Fetched).instruction_name = "JAL") =>
          LET w == Fetched
              rd == Field(w, 8, 4)
          IN  /\ pc' = (pc + Signed(Field(w, 0, 8), 8)) % 65536
              /\ rd # 0 => registers'[rd] = (pc + 1) % 65536
              /\ rd = 0 => registers' = registers
              /\ registers'[0] = 0]_vars

\* "jal x2, -128" at PC 1 left 2 in x2 and the PC at 0xFF81
C26_Witness ==
    /\ ExecutedWordUnderTest
    /\ imem[1] = 49792
    /\ registers[2] = 2
    /\ pc = 65409
    /\ ~halted

\* "jal x0, 5" at PC 1 left the registers as they were and the PC at 6
C26_WitnessX0 ==
    /\ ExecutedWordUnderTest
    /\ imem[1] = 49157
    /\ registers = [CPU_init.registers EXCEPT ![1] = 15]
    /\ pc = 6

\* the ALU operation the processor is to apply for an R-type or I-type
\* opcode other than LW
OperationOf(opcode) ==
    CASE opcode \in {0, 5} -> ALU_ADD
      [] opcode = 1 -> ALU_SUB
      [] opcode \in {2, 6} -> ALU_AND
      [] opcode \in {3, 7} -> ALU_OR
      [] opcode = 4 -> ALU_XOR

\* C27: executing a valid R-type instruction writes the ALU result of the
\* values of rs1 and rs2, mod 2^16, into rd, and executing ADDI, ANDI or
\* ORI writes the ALU result of the value of rs1 and the low 4 bits of the
\* word, read unsigned, into rd (register 0 takes no write); the PC
\* becomes (PC + 1) mod 2^16 and data memory is unchanged
C27_ArithmeticSemantics ==
    [][(StepExecutes /\ Field(Fetched, 12, 4) \in 0..7) =>
          LET w == Fetched
              rd == Field(w, 8, 4)
              a == registers[Field(w, 4, 4)]
              b == IF Field(w, 12, 4) <= 4 THEN registers[Field(w, 0, 4)]
                   ELSE Field(w, 0, 4)
              result == op_function(OperationOf(Field(w, 12, 4)), a, b)
                           % 65536
          IN  /\ rd # 0 => registers' = [registers EXCEPT ![rd] = result]
              /\ rd = 0 => registers' = registers
              /\ pc' = (pc + 1) % 65536
              /\ dmem' = dmem]_vars

\* scenario A, assembled, loaded and stepped to its end: x3 holds 15 and
\* the processor is halted
C27_Witness ==
    /\ call.op = "step"
    /\ source = ScenarioA
    /\ machine_code = << 20746, 20997, 786, 61440 >>
    /\ \A a \in 1..4 : imem[a - 1] = machine_code[a]
    /\ registers[1] = 10 /\ registers[2] = 5 /\ registers[3] = 15
    /\ instruction_count = 4
    /\ halted

\* the data memory words this transition changes
WordsChanged == { a \in DOMAIN dmem : dmem'[a] # dmem[a] }

\* C33: no step() and no run() changes the instruction memory or the
\* recorded program length, and a step() changes data memory only when the
\* instruction it executes is SW, and then exactly one word of it
C33_MemoryFrame ==
    [][call'.op \in {"step", "run"} =>
          /\ imem' = imem
          /\ program_size' = program_size
          /\ DOMAIN dmem' = DOMAIN dmem
          /\ (call'.op = "step" /\ dmem' # dmem) =>
                /\ StepExecutes
                /\ decode(Fetched).instruction_name = "SW"
                /\ Cardinality(WordsChanged) = 1
       ]_vars

\* "sw x1, 1(x0)" executed with x1 = 15: word 1 of the data memory holds
\* 15 and the other words hold 0
C33_Witness ==
    /\ ExecutedWordUnderTest
    /\ imem[1] = 37121
    /\ dmem[1] = 15
    /\ \A a \in DOMAIN dmem : a # 1 => dmem[a] = 0
    /\ imem[0] = 20751
    /\ program_size = 2

----------------------------------------------------------------------------
(* The error handler called on its own: SpecErr *)

\* the handler state the variables hold
Handler ==
    [strict_mode |-> strict_mode, error_count |-> error_count,
     error_log |-> error_log]

\* the variables take what a handler call r gave
SetHandled(r) ==
    /\ strict_mode' = r.h.strict_mode
    /\ error_count' = r.h.error_count
    /\ error_log' = r.h.error_log
    /\ raised' = r.raised
    /\ exception' = r.exception
    /\ ret' = r.value

\* the arguments the handlers are called with; None is an argument left out
ErrPCs == {None, 0, 4660}
ErrInstructions == {None, 53539}
ErrAddresses == {8192}
ErrRegisters == {16}
ErrOperations == {"read", "write"}
ErrMessages == {<< "Division by zero" >>}

\* ProcessorErrorHandler(strict_mode)
NewHandler ==
    /\ \E strict \in BOOLEAN :
          /\ strict_mode' = ProcessorErrorHandler(strict).strict_mode
          /\ error_count' = ProcessorErrorHandler(strict).error_count
          /\ error_log' = ProcessorErrorHandler(strict).error_log
          /\ call' = Call("ProcessorErrorHandler", << strict >>)
    /\ exception' = NoException
    /\ ret' = None
    /\ raised' = ""
    /\ UNCHANGED << cpuVars, memVars, asmVars, step_calls >>

\* handle_memory_error(address, operation, pc)
HandleMemoryError ==
    /\ error_count < MaxErrors
    /\ \E address \in ErrAddresses, operation \in ErrOperations,
          pc0 \in ErrPCs :
          \E r \in {handle_memory_error(Handler, address, operation, pc0)} :
              /\ SetHandled(r)
              /\ call' = Call("handle_memory_error",
                              << address, operation, pc0 >>)
    /\ UNCHANGED << cpuVars, memVars, asmVars, step_calls >>

\* handle_invalid_instruction(instruction, pc)
HandleInvalidInstruction ==
    /\ error_count < MaxErrors
    /\ \E instruction \in ErrInstructions \ {None}, pc0 \in ErrPCs :
          \E r \in {handle_invalid_instruction(Handler, instruction, pc0)} :
              /\ SetHandled(r)
              /\ call' = Call("handle_invalid_instruction",
                              << instruction, pc0 >>)
    /\ UNCHANGED << cpuVars, memVars, asmVars, step_calls >>

\* handle_register_error(reg_num, operation, pc)
HandleRegisterError ==
    /\ error_count < MaxErrors
    /\ \E reg_num \in ErrRegisters, operation \in ErrOperations,
          pc0 \in ErrPCs :
          \E r \in {handle_register_error(Handler, reg_num, operation, pc0)} :
              /\ SetHandled(r)
              /\ call' = Call("handle_register_error",
                              << reg_num, operation, pc0 >>)
    /\ UNCHANGED << cpuVars, memVars, asmVars, step_calls >>

\* handle_execution_error(message, pc, instruction)
HandleExecutionError ==
    /\ error_count < MaxErrors
    /\ \E message \in ErrMessages, pc0 \in ErrPCs,
          instruction \in ErrInstructions :
          \E r \in {handle_execution_error(Handler, message, pc0,
                                           instruction)} :
              /\ SetHandled(r)
              /\ call' = Call("handle_execution_error",
                              << message, pc0, instruction >>)
    /\ UNCHANGED << cpuVars, memVars, asmVars, step_calls >>

\* reset_errors()
ResetErrors ==
    /\ \E h \in {reset_errors(Handler)} :
          /\ strict_mode' = h.strict_mode
          /\ error_count' = h.error_count
          /\ error_log' = h.error_log
    /\ call' = Call("reset_errors", << >>)
    /\ exception' = NoException
    /\ ret' = None
    /\ raised' = ""
    /\ UNCHANGED << cpuVars, memVars, asmVars, step_calls >>

NextErr ==
    \/ NewHandler \/ HandleMemoryError \/ HandleInvalidInstruction
    \/ HandleRegisterError \/ HandleExecutionError \/ ResetErrors

SpecErr == Init /\ [][NextErr]_vars

\* the pc a handler call c was given, and the instruction (None when the
\* handler takes none)
SuppliedPC(c) ==
    CASE c.op = "handle_memory_error" -> c.args[3]
      [] c.op = "handle_invalid_instruction" -> c.args[2]
      [] c.op = "handle_register_error" -> c.args[3]
      [] c.op = "handle_execution_error" -> c.args[2]
SuppliedInstruction(c) ==
    CASE c.op = "handle_invalid_instruction" -> c.args[1]
      [] c.op = "handle_execution_error" -> c.args[3]
      [] OTHER -> None

\* the exception class that matches a handler
MatchingException(c) ==
    CASE c.op = "handle_memory_error" -> "MemoryException"
      [] c.op = "handle_invalid_instruction" -> "InvalidInstructionException"
      [] c.op = "handle_register_error" -> "RegisterException"
      [] c.op = "handle_execution_error" -> "ExecutionException"

\* C23: a handler in strict mode raises, on every handle_* call, the
\* exception of the matching class carrying the supplied pc and, where one
\* is given, the supplied instruction; a handler in graceful mode raises
\* nothing and returns 0, None, False and None respectively
C23_PropagationPolicy ==
    [][call'.op \in {"handle_memory_error", "handle_invalid_instruction",
                     "handle_register_error", "handle_execution_error"} =>
          IF strict_mode
          THEN /\ raised' = MatchingException(call')
               /\ exception'.pc = SuppliedPC(call')
               /\ exception'.instruction = SuppliedInstruction(call')
          ELSE /\ raised' = ""
               /\ call'.op = "handle_memory_error" => ret' = 0
               /\ call'.op = "handle_invalid_instruction" => ret' = None
               /\ call'.op = "handle_register_error" => ret' = FALSE
               /\ call'.op = "handle_execution_error" => ret' = None]_vars

\* a strict handler raised InvalidInstructionException with the pc and
\* the instruction of the call, its second error
C23_Witness ==
    /\ call.op = "handle_invalid_instruction"
    /\ strict_mode
    /\ raised = "InvalidInstructionException"
    /\ exception = ProcessorException(4660, 53539)
    /\ call.args = << 53539, 4660 >>
    /\ error_count = 2

\* a graceful handler returned False from handle_register_error
C23_WitnessGraceful ==
    /\ call.op = "handle_register_error"
    /\ ~strict_mode
    /\ raised = ""
    /\ ret = FALSE
    /\ error_count = 1


----------------------------------------------------------------------------
(* The error handler with more errors than its log holds: SpecErrLog *)

\* the entries of the log that are not memory errors
OtherKinds == { i \in DOMAIN error_log : error_log[i].type # "MEMORY" }

\* handle_memory_error(0xFFFF, "read", pc=0x0010)
LogMemoryError ==
    /\ error_count < MaxLogged
    /\ \E r \in {handle_memory_error(Handler, 65535, "read", 16)} :
          SetHandled(r)
    /\ call' = Call("handle_memory_error", << 65535, "read", 16 >>)
    /\ UNCHANGED << cpuVars, memVars, asmVars, step_calls >>

\* handle_invalid_instruction(0xDEAD, pc=0x0020)
LogInvalidInstruction ==
    /\ error_count < MaxLogged
    /\ Cardinality(OtherKinds) < MaxMixed
    /\ \E r \in {handle_invalid_instruction(Handler, 57005, 32)} :
          SetHandled(r)
    /\ call' = Call("handle_invalid_instruction", << 57005, 32 >>)
    /\ UNCHANGED << cpuVars, memVars, asmVars, step_calls >>

\* handle_register_error(99, "write", pc=0x0030)
LogRegisterError ==
    /\ error_count < MaxLogged
    /\ Cardinality(OtherKinds) < MaxMixed
    /\ \E r \in {handle_register_error(Handler, 99, "write", 48)} :
          SetHandled(r)
    /\ call' = Call("handle_register_error", << 99, "write", 48 >>)
    /\ UNCHANGED << cpuVars, memVars, asmVars, step_calls >>

\* handle_execution_error(message), the pc and the instruction left out
LogExecutionError ==
    /\ error_count < MaxLogged
    /\ Cardinality(OtherKinds) < MaxMixed
    /\ \E message \in ErrMessages :
          /\ \E r \in {handle_execution_error(Handler, message, None, None)} :
                SetHandled(r)
          /\ call' = Call("handle_execution_error",
                          << message, None, None >>)
    /\ UNCHANGED << cpuVars, memVars, asmVars, step_calls >>

NextErrLog ==
    \/ NewHandler \/ LogMemoryError \/ LogInvalidInstruction
    \/ LogRegisterError \/ LogExecutionError

SpecErrLog == Init /\ [][NextErrLog]_vars

\* the kind a handler logs its errors under
LoggedKind(c) ==
    CASE c.op = "handle_memory_error" -> "MEMORY"
      [] c.op = "handle_invalid_instruction" -> "INSTRUCTION"
      [] c.op = "handle_register_error" -> "REGISTER"
      [] c.op = "handle_execution_error" -> "EXECUTION"

\* the text a handler call c describes its error with
LoggedMessage(c) ==
    CASE c.op = "handle_memory_error" ->
             << "Invalid memory ", c.args[2], " at address 0x",
                Formatted(c.args[1], 16, 4) >>
      [] c.op = "handle_invalid_instruction" ->
             << "Unknown instruction 0x", Formatted(c.args[1], 16, 4) >>
      [] c.op = "handle_register_error" ->
             << "Invalid register ", c.args[2], ": x",
                Formatted(c.args[1], 10, 0) >>
      [] c.op = "handle_execution_error" -> c.args[1]

\* the newest entry of the log after the transition
NewestError == error_log'[Len(error_log')]

\* C40: every handle_* call, whether it then returns (graceful mode) or
\* raises (strict mode), adds 1 to error_count and appends one entry with
\* its kind, message and PC to error_log; the log never holds more than 10
\* entries, a full log dropping its oldest entry, and error_count keeps
\* the total
C40_ErrorLogBound ==
    [][call'.op \in {"handle_memory_error", "handle_invalid_instruction",
                     "handle_register_error", "handle_execution_error"} =>
          /\ error_count' = error_count + 1
          /\ (raised' # "") = strict_mode
          /\ error_log' # << >>
          /\ NewestError.type = LoggedKind(call')
          /\ NewestError.message = LoggedMessage(call')
          /\ NewestError.pc = SuppliedPC(call')
          /\ NewestError.count = error_count'
          /\ Len(error_log') <= 10
          /\ error_log' = IF Len(error_log) < 10
                          THEN Append(error_log, NewestError)
                          ELSE Append(Tail(error_log), NewestError)
      ]_vars

\* a strict handler raised on its 12th error: the log holds the 10
\* entries numbered 3 to 12, the newest that of the call
C40_Witness ==
    /\ call.op = "handle_register_error"
    /\ strict_mode /\ raised = "RegisterException"
    /\ error_count = 12
    /\ Len(error_log) = 10
    /\ error_log[1].count = 3
    /\ error_log[10].count = 12
    /\ error_log[10].type = "REGISTER"
    /\ error_log[10].pc = 48
    /\ error_log[10].message =
           << "Invalid register ", "write", ": x",
              [sign |-> "", digits |-> << 9, 9 >>] >>

\* a graceful handler returned from its 11th error, a memory error at
\* 0xFFFF: the first entry is gone from the log
C40_WitnessGraceful ==
    /\ call.op = "handle_memory_error"
    /\ ~strict_mode /\ raised = "" /\ ret = 0
    /\ error_count = 11
    /\ Len(error_log) = 10
    /\ error_log[1].count = 2
    /\ error_log[10].message =
           << "Invalid memory ", "read", " at address 0x",
              [sign |-> "", digits |-> << 15, 15, 15, 15 >>] >>

=============================================================================
